---- MODULE Spec2Model ----
(***************************************************************************)
(* A model of the Stillpoint collector (src/src/stillpoint/collector_app.py) *)
(* as a state machine: the module-level aggregates are the variables, each *)
(* HTTP handler is one action, and the helpers are operators.              *)
(*                                                                         *)
(* Python values: a dict is a function whose DOMAIN is its key set, so     *)
(* d.get(k, default) is Get(d, k, default).  None is the string None for   *)
(* string-valued fields and the number NoneNum for number-valued fields.   *)
(* An endpoint key "<METHOD> <route>" is the pair <<METHOD, route>>.       *)
(* Fields that only flow through untouched (trace_id, span_id, level,      *)
(* logger, meta) are left out of the event dicts.                          *)
(***************************************************************************)
EXTENDS Integers, Sequences, FiniteSets, TLC

None == "None"
NoneNum == 0 - 999

(***************************************************************************)
(* Configuration (collector_app.py:27-48).  The values are environment     *)
(* settings; small ones are chosen here.                                   *)
(***************************************************************************)
TOKEN == "dev-secret"
WINDOW_S == 1
MAX_EVENTS == 2
SLOW_MS == 750
TRACE_STORE_MAX == 2
RECENT_REQS_MAX == 3
\* asyncio.Queue(maxsize=5000) of stream(), scaled down
SubQueueMaxsize == 1
\* queue.Queue(maxsize=10000) of start_tail_thread(), scaled down
LineQueueMaxsize == 1
\* max_q of CollectorClient (default 8000), scaled down
AgentMaxQ == 1
\* parse_log_files names the service of a bare path "accesslog"
TailService == "accesslog"
\* the service name an instrumented service gives its CollectorClient
AgentService == "a"
\* SAMPLE_RATE and random.random() in percent
SampleRates == {0, 5}
RandomDraws == {0, 50}

(***************************************************************************)
(* Bounds of the exploration.                                              *)
(***************************************************************************)
\* time.time() at start-up: far from the epoch, so that ts = 0 is stale
Epoch == WINDOW_S + 1
MaxTicks == 2
\* requests handled in a run, per specification
MaxInflightRequests == 3
MaxWindowRequests == 3
MaxPublishRequests == 3
MaxHttpRequests == 3
MaxTraceRequests == 4
MaxQueryRequests == 3
MaxStreamRequests == 3
MaxBucketRequests == 3
\* lines written to the tailed file, changes of its readability, and events
\* handed to CollectorClient.emit, in a run
MaxFileLines == 2
MaxFileFlips == 2
MaxEmits == 2
\* agent.py:19, OBS_REQ_LOG_LINES (50 by default), scaled down
REQ_LOG_LINES == 1
\* requests the middleware handles, by the request_id uuid4 gives each
AppRequests == {"r1", "r2"}
\* threads that log while a request is handled
LogThreads == {"t1", "t2"}
MaxLogRecords == 2
MaxAgentLogs == 1

Services == {"a", "b"}
Subscribers == {"s1", "s2"}

VARIABLES
    now,                  \* time.time()
    SAMPLE_RATE,          \* configuration, fixed at start-up
    EVENTS,               \* deque(maxlen=MAX_EVENTS) of published events
    SUBS,                 \* set of subscriber queues (their ids)
    subq,                 \* the contents of each subscriber queue
    streamPc,             \* where each /stream generator is
    connected,            \* whether each /stream client is still connected
    TRACE_STORE,          \* OrderedDict, as its key sequence, oldest first
    REQ_WINDOW,
    ENDPOINT_WINDOWS,
    RECENT_REQS,
    ERROR_SIG_WINDOW,
    ERROR_SIG_COUNT,
    INFLIGHT_BY_SERVICE,
    INFLIGHT_GLOBAL,
    INFLIGHT_REQUESTS,
    worker,               \* the threadpool thread that runs a query handler
    TAIL_FROM_START,      \* configuration, fixed at start-up
    fileOk,               \* whether open(path) succeeds now
    fileLines,            \* the lines of the tailed file
    tailPc,               \* where the tailer thread is
    tailPos,              \* the lines before the tailer's file position
    lineQ,                \* queue.Queue(maxsize=10000) of the tailer
    tailTask,             \* the tail_access_log task of the event loop
    agentQ,               \* CollectorClient.q of an instrumented service
    max_q,                \* CollectorClient(max_q=...), fixed at start-up
    emit_request_span,    \* configuration of the middleware, fixed at start-up
    mw,                   \* where dispatch is, for each request it handles
    logThread,            \* where each thread that logs is, and its context
    _REQ_LOGS,            \* request_id -> deque(maxlen=REQ_LOG_LINES)
    _REQ_LOGS_LOCK,       \* who holds the lock, or "free"
    last,                 \* history: the last operation and its outcome
    hist,                 \* history: what has been ingested so far
    tailHist,             \* history: what the tailer thread has met
    agentHist             \* history: what the agent was asked to emit

collectorVars == <<EVENTS, SUBS, subq, TRACE_STORE, REQ_WINDOW, ENDPOINT_WINDOWS,
                   RECENT_REQS, ERROR_SIG_WINDOW, ERROR_SIG_COUNT,
                   INFLIGHT_BY_SERVICE, INFLIGHT_GLOBAL, INFLIGHT_REQUESTS>>
inflightVars == <<INFLIGHT_BY_SERVICE, INFLIGHT_GLOBAL, INFLIGHT_REQUESTS>>
queryVars == <<worker>>
tailVars == <<TAIL_FROM_START, fileOk, fileLines, tailPc, tailPos, lineQ, tailTask,
              tailHist>>
agentVars == <<agentQ, agentHist, max_q, emit_request_span, mw, logThread, _REQ_LOGS,
               _REQ_LOGS_LOCK>>
vars == <<now, SAMPLE_RATE, EVENTS, SUBS, subq, streamPc, connected, TRACE_STORE,
          REQ_WINDOW, ENDPOINT_WINDOWS, RECENT_REQS, ERROR_SIG_WINDOW,
          ERROR_SIG_COUNT, INFLIGHT_BY_SERVICE, INFLIGHT_GLOBAL,
          INFLIGHT_REQUESTS, last, hist, worker, TAIL_FROM_START, fileOk,
          fileLines, tailPc, tailPos, lineQ, tailTask, tailHist, agentQ, agentHist,
          max_q, emit_request_span, mw, logThread, _REQ_LOGS, _REQ_LOGS_LOCK>>

(***************************************************************************)
(* Python helpers.                                                         *)
(***************************************************************************)
Get(d, k, default) == IF k \in DOMAIN d THEN d[k] ELSE default

\* d.setdefault(k, v), as the dict afterwards
SetDefault(d, k, v) == IF k \in DOMAIN d THEN d ELSE d @@ [x \in {k} |-> v]

Put(d, k, v) == [x \in (DOMAIN d) \cup {k} |-> IF x = k THEN v ELSE d[x]]

Del(d, k) == [x \in (DOMAIN d) \ {k} |-> d[x]]

\* x or y, for string values (None and "" are falsy)
OrElse(x, y) == IF x = None \/ x = "" THEN y ELSE x

\* a ring that refuses the new element when it is full
DequeAppendDropNewest(q, x, maxlen) ==
    IF Len(q) >= maxlen THEN q ELSE Append(q, x)

\* deque(maxlen=n).append(x)
DequeAppend(q, x, maxlen) ==
    IF maxlen = 0 THEN << >>
    ELSE IF Len(q) >= maxlen THEN Append(Tail(q), x)
    ELSE Append(q, x)

\* int(float): truncation towards zero.  A float is held in halves.
IntOfHalves(h) == IF h >= 0 THEN h \div 2 ELSE 0 - ((0 - h) \div 2)

RECURSIVE SumOver(_, _)
SumOver(f, S) ==
    IF S = {} THEN 0
    ELSE LET x == CHOOSE y \in S : TRUE IN f[x] + SumOver(f, S \ {x})

SeqToSet(s) == {s[i] : i \in 1..Len(s)}

(***************************************************************************)
(* Event schemas (collector_app.py:64-115).  Event is the union            *)
(*   LogEvent | ReqEvent | ReqStartEvent | ReqEndEvent | SpanEvent |       *)
(*   GaugeEvent                                                            *)
(* of pydantic models.  kind is a plain str field with a default in every  *)
(* model, so any string is a valid kind for every model: a body validates  *)
(* against a model exactly when it carries the model's required fields.    *)
(* Fields the model does not declare are ignored.  Among the models that   *)
(* validate, the one with the most fields set is taken, the leftmost on a  *)
(* tie.                                                                    *)
(***************************************************************************)
EventModels == <<"LogEvent", "ReqEvent", "ReqStartEvent", "ReqEndEvent",
                 "SpanEvent", "GaugeEvent">>

\* BaseEvent: ts (default time.time()), service, request_id
BaseEvent(t) == [ts |-> t, service |-> "unknown", request_id |-> None]

\* the declared fields of every model, with their defaults (required
\* fields carry a placeholder that validation always overwrites)
ModelDefaults(m, t) ==
    CASE m = "LogEvent" ->
           BaseEvent(t) @@ [kind |-> "log", message |-> None, trace |-> None]
      [] m = "ReqEvent" ->
           BaseEvent(t) @@ [kind |-> "req", method |-> None, path |-> None,
                            route |-> None, status |-> NoneNum,
                            duration_ms |-> NoneNum]
      [] m = "ReqStartEvent" ->
           BaseEvent(t) @@ [kind |-> "req_start", method |-> None, path |-> None,
                            route |-> None]
      [] m = "ReqEndEvent" ->
           BaseEvent(t) @@ [kind |-> "req_end", method |-> None, path |-> None,
                            route |-> None, status |-> NoneNum,
                            duration_ms |-> NoneNum]
      [] m = "SpanEvent" ->
           BaseEvent(t) @@ [kind |-> "span", name |-> None, duration_ms |-> NoneNum]
      [] m = "GaugeEvent" ->
           BaseEvent(t) @@ [kind |-> "gauge", name |-> None, value |-> NoneNum]

RequiredFields(m) ==
    CASE m = "LogEvent" -> {"message"}
      [] m = "ReqEvent" -> {"method", "path", "status"}
      [] m = "ReqStartEvent" -> {"method", "path"}
      [] m = "ReqEndEvent" -> {"method", "path", "status"}
      [] m = "SpanEvent" -> {"name"}
      [] m = "GaugeEvent" -> {"name", "value"}

\* the union members a request body validates against
ValidModels(body) ==
    {i \in 1..Len(EventModels) : RequiredFields(EventModels[i]) \subseteq DOMAIN body}

FieldsSet(i, body) ==
    Cardinality((DOMAIN body) \cap DOMAIN ModelDefaults(EventModels[i], 0))

\* the union member FastAPI hands to the handler as ev
EventModelOf(body) ==
    EventModels[CHOOSE i \in ValidModels(body) :
        \A j \in ValidModels(body) :
            \/ FieldsSet(i, body) > FieldsSet(j, body)
            \/ FieldsSet(i, body) = FieldsSet(j, body) /\ i <= j]

\* ev.model_dump(): the declared fields, from the body or defaulted
ModelDump(body, t) ==
    LET d == ModelDefaults(EventModelOf(body), t)
    IN  [k \in DOMAIN d |-> IF k \in DOMAIN body THEN body[k] ELSE d[k]]

(***************************************************************************)
(* Helpers (collector_app.py:157-280, 367-373).                            *)
(***************************************************************************)
\* lines 157-161
_bucket_status(status) ==
    IF 200 <= status /\ status < 300 THEN "2xx"
    ELSE IF 300 <= status /\ status < 400 THEN "3xx"
    ELSE IF 400 <= status /\ status < 500 THEN "4xx"
    ELSE "5xx"

\* lines 291-298: status_b, the number of samples of a window in each class
StatusHistogram(window) ==
    [b \in {"2xx", "3xx", "4xx", "5xx"} |->
        Cardinality({i \in 1..Len(window) : _bucket_status(window[i][3]) = b})]

_endpoint_key(ev) ==
    LET method == OrElse(Get(ev, "method", None), "GET")
        route == OrElse(Get(ev, "route", None),
                        OrElse(Get(ev, "path", None), "unknown"))
    IN  <<method, route>>

\* a window sample is <<ts, duration_ms, status>>.  At a head whose ts is
\* None the subtraction raises TypeError: the deque is left with that head.
\* (A null ts only enters through the tailer, whose task ends at once.)
RECURSIVE _prune_req_deque(_, _)
_prune_req_deque(dq, t) ==
    IF dq # << >> /\ dq[1][1] # NoneNum /\ t - dq[1][1] > WINDOW_S
    THEN _prune_req_deque(Tail(dq), t)
    ELSE dq

\* _prune_req_deque(dq, now) raises
PruneRaises(dq, t) ==
    _prune_req_deque(dq, t) # << >> /\ _prune_req_deque(dq, t)[1][1] = NoneNum

\* int(data.get("status", 0) or 0)
StatusOrZero(data) ==
    LET s == Get(data, "status", 0) IN IF s = NoneNum THEN 0 ELSE s

\* _should_sample_req with the slow threshold exclusive
_should_sample_req_slower(data, rate, draw) ==
    LET status == StatusOrZero(data)
        dur_ms == Get(data, "duration_ms", NoneNum)
    IN  IF status >= 500 THEN TRUE
        ELSE IF dur_ms # NoneNum /\ dur_ms > SLOW_MS THEN TRUE
        ELSE IF rate <= 0 THEN FALSE
        ELSE draw < rate

_should_sample_req(data, rate, draw) ==
    LET status == StatusOrZero(data)
        dur_ms == Get(data, "duration_ms", NoneNum)
    IN  IF status >= 500 THEN TRUE
        ELSE IF dur_ms # NoneNum /\ dur_ms >= SLOW_MS THEN TRUE
        ELSE IF rate <= 0 THEN FALSE
        ELSE draw < rate

RECURSIVE EvictOldest(_)
EvictOldest(store) ==
    IF Len(store) > TRACE_STORE_MAX THEN EvictOldest(Tail(store)) ELSE store

\* OrderedDict.move_to_end(key)
MoveToEnd(store, key) ==
    Append(SelectSeq(store, LAMBDA k : k # key), key)

\* whether _get_trace_bundle returns a bundle
HasBundle(store, request_id, create) ==
    /\ request_id # None /\ request_id # ""
    /\ (request_id \in SeqToSet(store) \/ create)

\* TRACE_STORE after _get_trace_bundle(request_id, create)
_get_trace_bundle(store, request_id, create) ==
    IF HasBundle(store, request_id, create)
    THEN EvictOldest(MoveToEnd(store, request_id))
    ELSE store

RECURSIVE _prune_recent(_, _)
_prune_recent(recent, t) ==
    IF recent # << >> /\ t - Get(recent[1], "ts", t) > WINDOW_S
    THEN _prune_recent(Tail(recent), t)
    ELSE recent

_record_recent_request(recent, data, t) ==
    IF Get(data, "status", NoneNum) = NoneNum THEN recent
    ELSE LET summary == [ts |-> Get(data, "ts", t),
                         request_id |-> Get(data, "request_id", None),
                         service |-> Get(data, "service", None),
                         endpoint |-> _endpoint_key(data),
                         status |-> Get(data, "status", 0),
                         duration_ms |-> Get(data, "duration_ms", NoneNum)]
             appended == Append(recent, summary)
         IN  IF Len(appended) > RECENT_REQS_MAX THEN Tail(appended) ELSE appended

\* the error signature of a traceback: a digest, here the traceback's name
_signature_from_trace(trace) == <<"sig", trace>>

\* prune_error_sigs(): the pair <<ERROR_SIG_WINDOW, ERROR_SIG_COUNT>> after it
RECURSIVE prune_error_sigs(_, _, _)
prune_error_sigs(window, count, t) ==
    IF window # << >> /\ t - window[1][1] > WINDOW_S
    THEN LET sig == window[1][2]
             c == Get(count, sig, 0) - 1
         IN  prune_error_sigs(Tail(window),
                              IF c <= 0 THEN Del(count, sig) ELSE Put(count, sig, c),
                              t)
    ELSE <<window, count>>

(***************************************************************************)
(* _ingest_event_dict (collector_app.py:514-616), branch by branch.  Each  *)
(* operator gives the new value of the aggregates it names.                *)
(***************************************************************************)
KindOf(data) == Get(data, "kind", None)

BundleKinds == {"req_start", "req_end", "req", "log", "span"}

\* the in-flight state is [by, global, requests]

\* lines 526-532
ReqStartInflight(inf, data, t) ==
    LET svc == Get(data, "service", "unknown")
        rid == Get(data, "request_id", None)
    IN  [by |-> Put(inf.by, svc, Get(inf.by, svc, 0) + 1),
         global |-> inf.global + 1,
         requests |-> IF rid # None /\ rid # ""
                      THEN Put(inf.requests, rid, <<svc, t>>)
                      ELSE inf.requests]

\* ReqEndInflight that decrements for every req_end, tracked or not
ReqEndInflightAlways(inf, data) ==
    LET rid == Get(data, "request_id", None)
        tracked == rid # None /\ rid # "" /\ rid \in DOMAIN inf.requests
        svc == IF tracked THEN inf.requests[rid][1]
               ELSE Get(data, "service", "unknown")
        b == Get(inf.by, svc, 0) - 1
        g == inf.global - 1
    IN  [by |-> Put(inf.by, svc, IF b < 0 THEN 0 ELSE b),
         global |-> IF g < 0 THEN 0 ELSE g,
         requests |-> IF tracked THEN Del(inf.requests, rid) ELSE inf.requests]

\* lines 557-566
ReqEndInflight(inf, data) ==
    LET rid == Get(data, "request_id", None)
    IN  IF rid # None /\ rid # "" /\ rid \in DOMAIN inf.requests
        THEN LET svc == inf.requests[rid][1]
                 b == Get(inf.by, svc, 0) - 1
                 g == inf.global - 1
             IN  [by |-> Put(inf.by, svc, IF b < 0 THEN 0 ELSE b),
                  global |-> IF g < 0 THEN 0 ELSE g,
                  requests |-> Del(inf.requests, rid)]
        ELSE inf

\* GaugeInflight without the floors at zero
GaugeInflightNoFloor(inf, data) ==
    LET name == Get(data, "name", None)
        val == Get(data, "value", 0)
        svc == Get(data, "service", "unknown")
    IN  IF name = "inflight_delta"
        THEN [by |-> Put(inf.by, svc, Get(inf.by, svc, 0) + IntOfHalves(val)),
              global |-> inf.global + IntOfHalves(val),
              requests |-> inf.requests]
        ELSE inf

\* lines 587-599; value is a float, held in halves
GaugeInflight(inf, data) ==
    LET name == Get(data, "name", None)
        val == Get(data, "value", 0)
        svc == Get(data, "service", "unknown")
    IN  IF name = "inflight_delta"
        THEN LET b == Get(inf.by, svc, 0) + IntOfHalves(val)
                 g == inf.global + IntOfHalves(val)
             IN  [by |-> Put(inf.by, svc, IF b < 0 THEN 0 ELSE b),
                  global |-> IF g < 0 THEN 0 ELSE g,
                  requests |-> inf.requests]
        ELSE inf

InflightAfter(inf, data, t) ==
    CASE KindOf(data) = "req_start" -> ReqStartInflight(inf, data, t)
      [] KindOf(data) = "req_end" -> ReqEndInflight(inf, data)
      [] KindOf(data) = "gauge" -> GaugeInflight(inf, data)
      [] OTHER -> inf

\* lines 541, 546: the sample appended to the windows
SampleOf(data, t) ==
    <<Get(data, "ts", t), Get(data, "duration_ms", NoneNum), Get(data, "status", 0)>>

\* lines 541-542
ReqWindowAfter(window, data, t) ==
    IF KindOf(data) \in {"req", "req_end"}
    THEN _prune_req_deque(Append(window, SampleOf(data, t)), t)
    ELSE window

\* lines 544-547
EndpointWindowsAfter(windows, data, t) ==
    IF KindOf(data) \in {"req", "req_end"}
    THEN LET epk == _endpoint_key(data)
             w == Get(windows, epk, << >>)
         IN  Put(windows, epk, _prune_req_deque(Append(w, SampleOf(data, t)), t))
    ELSE windows

\* lines 554-555
RecentAfter(recent, data, t) ==
    IF KindOf(data) \in {"req", "req_end"}
    THEN _prune_recent(_record_recent_request(recent, data, t), t)
    ELSE recent

\* lines 570-576: <<ERROR_SIG_WINDOW, ERROR_SIG_COUNT>>
ErrorSigsAfter(window, count, data, t) ==
    LET trace == Get(data, "trace", None)
    IN  IF KindOf(data) = "log" /\ trace # None /\ trace # ""
        THEN LET sig == _signature_from_trace(trace)
             IN  prune_error_sigs(Append(window, <<Get(data, "ts", t), sig>>),
                                  Put(count, sig, Get(count, sig, 0) + 1), t)
        ELSE <<window, count>>

\* lines 523, 538, 568: should_publish
ShouldPublish(data, rate, draw) ==
    CASE KindOf(data) = "req_start" -> FALSE
      [] KindOf(data) \in {"req", "req_end"} -> _should_sample_req(data, rate, draw)
      [] OTHER -> TRUE

\* a fan-out that never marks a subscriber dead
DeadSubsNone(subs, queues) == {}

\* lines 608-616: the subscribers whose put_nowait raises QueueFull
DeadSubs(subs, queues) == {q \in subs : Len(queues[q]) >= SubQueueMaxsize}

(***************************************************************************)
(* History, for stating the claims: what was ingested so far, and the      *)
(* bundles of the trace store in the order of their last touch (a touch is *)
(* any lookup of the bundle, by an ingest or by GET /trace/{request_id}).  *)
(***************************************************************************)
Touch(order, rid) == Append(SelectSeq(order, LAMBDA k : k # rid), rid)

HistAfterIngest(h, data, storeAfter, should_publish) ==
    LET kind == KindOf(data)
        rid == Get(data, "request_id", None)
        anon == rid = None \/ rid = ""
        touched == IF HasBundle(TRACE_STORE, rid, kind \in BundleKinds)
                   THEN Touch(h.touchOrder, rid) ELSE h.touchOrder
    IN  [requests |-> h.requests + 1,
         gaugeSeen |-> h.gaugeSeen \/ kind = "gauge",
         started |-> IF kind = "req_start" /\ ~anon THEN h.started \cup {rid}
                     ELSE h.started,
         ended |-> IF kind = "req_end" /\ ~anon THEN h.ended \cup {rid}
                   ELSE h.ended,
         anonStarts |-> h.anonStarts + (IF kind = "req_start" /\ anon THEN 1 ELSE 0),
         anonEnds |-> h.anonEnds + (IF kind = "req_end" /\ anon THEN 1 ELSE 0),
         touchOrder |-> SelectSeq(touched, LAMBDA k : k \in SeqToSet(storeAfter)),
         lastIngest |-> now,
         published |-> IF should_publish THEN Append(h.published, data)
                       ELSE h.published,
         enrolledAt |-> h.enrolledAt,
         put |-> [s \in Subscribers |->
                    IF should_publish /\ s \in SUBS \ DeadSubs(SUBS, subq)
                    THEN Append(h.put[s], data) ELSE h.put[s]]]

(***************************************************************************)
(* _ingest_event_dict(data): the whole step.                               *)
(***************************************************************************)
_ingest_event_dict(event, draw) ==
    LET data == SetDefault(event, "request_id", None)
        kind == KindOf(data)
        rid == Get(data, "request_id", None)
        store == _get_trace_bundle(TRACE_STORE, rid, kind \in BundleKinds)
        inf == InflightAfter([by |-> INFLIGHT_BY_SERVICE,
                              global |-> INFLIGHT_GLOBAL,
                              requests |-> INFLIGHT_REQUESTS], data, now)
        sigs == ErrorSigsAfter(ERROR_SIG_WINDOW, ERROR_SIG_COUNT, data, now)
        should_publish == ShouldPublish(data, SAMPLE_RATE, draw)
        dead == IF should_publish THEN DeadSubs(SUBS, subq) ELSE {}
    IN  /\ TRACE_STORE' = store
        /\ INFLIGHT_BY_SERVICE' = inf.by
        /\ INFLIGHT_GLOBAL' = inf.global
        /\ INFLIGHT_REQUESTS' = inf.requests
        /\ REQ_WINDOW' = ReqWindowAfter(REQ_WINDOW, data, now)
        /\ ENDPOINT_WINDOWS' = EndpointWindowsAfter(ENDPOINT_WINDOWS, data, now)
        /\ RECENT_REQS' = RecentAfter(RECENT_REQS, data, now)
        /\ ERROR_SIG_WINDOW' = sigs[1]
        /\ ERROR_SIG_COUNT' = sigs[2]
        /\ EVENTS' = IF should_publish THEN DequeAppend(EVENTS, data, MAX_EVENTS)
                     ELSE EVENTS
        /\ subq' = [q \in DOMAIN subq |->
                      IF should_publish /\ q \in SUBS \ dead
                      THEN Append(subq[q], data) ELSE subq[q]]
        /\ SUBS' = SUBS \ dead
        /\ hist' = HistAfterIngest(hist, data, store, should_publish)

\* the step as POST /ingest runs it, with the answer of the handler
IngestEventDict(data, draw, auth) ==
    /\ _ingest_event_dict(data, draw)
    /\ last' = [op |-> "ingest", code |-> 200, data |-> data, auth |-> auth,
                pub |-> ShouldPublish(data, SAMPLE_RATE, draw)]

(***************************************************************************)
(* POST /ingest (collector_app.py:482-491).  FastAPI validates the body    *)
(* against Event before it calls the handler: a body that validates        *)
(* against no model is answered 422 and the handler never runs.  The       *)
(* Authorization header is absent (the empty tuple) or <<scheme, token>>.  *)
(***************************************************************************)
Bearer(token) == <<"Bearer", token>>

Rejected(code, body, auth) ==
    /\ UNCHANGED collectorVars
    /\ hist' = [hist EXCEPT !.requests = @ + 1]
    /\ last' = [op |-> "ingest", code |-> code, data |-> body, auth |-> auth,
                pub |-> FALSE]

\* the request as the collector handles it, whoever sent it
Post(body, authorization) ==
    IF ValidModels(body) = {} THEN Rejected(422, body, authorization)
    ELSE IF authorization # Bearer(TOKEN) THEN Rejected(401, body, authorization)
    ELSE \E draw \in RandomDraws :
             IngestEventDict(ModelDump(body, now), draw, authorization)

ingest(body, authorization) ==
    /\ UNCHANGED <<now, SAMPLE_RATE, streamPc, connected>>
    /\ UNCHANGED <<queryVars, tailVars, agentVars>>
    /\ Post(body, authorization)

(***************************************************************************)
(* GET /trace/{request_id} (collector_app.py:439-480): TRACE_STORE.get,    *)
(* 404 when there is no bundle; no aggregate is written.                   *)
(***************************************************************************)
trace_detail(request_id) ==
    /\ UNCHANGED <<now, SAMPLE_RATE, streamPc, connected>>
    /\ UNCHANGED <<queryVars, tailVars, agentVars>>
    /\ UNCHANGED collectorVars
    /\ LET found == request_id \in SeqToSet(TRACE_STORE)
       IN  /\ hist' = [hist EXCEPT !.requests = @ + 1,
                                   !.touchOrder = IF found THEN Touch(@, request_id)
                                                  ELSE @]
           /\ last' = [op |-> "trace_detail",
                       code |-> IF found THEN 200 ELSE 404,
                       data |-> [request_id |-> request_id], auth |-> << >>,
                       pub |-> FALSE]

(***************************************************************************)
(* GET /stream (collector_app.py:493-508): the handler enrolls a new       *)
(* queue; the generator then alternates a disconnection check and a        *)
(* q.get(), and leaves SUBS when it ends.                                  *)
(***************************************************************************)
\* a stream that starts with a replay of the event ring
NewQueueWithReplay(events) == events

\* line 495: q = asyncio.Queue(maxsize=5000), empty whatever EVENTS holds
NewQueue(events) == << >>

stream(s) ==
    /\ streamPc[s] = "none"
    /\ streamPc' = [streamPc EXCEPT ![s] = "check"]
    /\ connected' = [connected EXCEPT ![s] = TRUE]
    /\ subq' = [subq EXCEPT ![s] = NewQueue(EVENTS)]
    /\ SUBS' = SUBS \cup {s}
    /\ hist' = [hist EXCEPT !.enrolledAt[s] = Len(hist.published),
                            !.put[s] = NewQueue(EVENTS)]
    /\ UNCHANGED <<now, SAMPLE_RATE, EVENTS, TRACE_STORE, REQ_WINDOW,
                   ENDPOINT_WINDOWS, RECENT_REQS, ERROR_SIG_WINDOW,
                   ERROR_SIG_COUNT, INFLIGHT_BY_SERVICE, INFLIGHT_GLOBAL,
                   INFLIGHT_REQUESTS, last>>
    /\ UNCHANGED <<queryVars, tailVars, agentVars>>

\* line 501: if await request.is_disconnected(): break (then finally, 506)
StreamCheck(s) ==
    /\ streamPc[s] = "check"
    /\ IF connected[s]
       THEN /\ streamPc' = [streamPc EXCEPT ![s] = "get"]
            /\ SUBS' = SUBS
       ELSE /\ streamPc' = [streamPc EXCEPT ![s] = "done"]
            /\ SUBS' = SUBS \ {s}
    /\ UNCHANGED <<now, SAMPLE_RATE, EVENTS, subq, connected, TRACE_STORE,
                   REQ_WINDOW, ENDPOINT_WINDOWS, RECENT_REQS, ERROR_SIG_WINDOW,
                   ERROR_SIG_COUNT, INFLIGHT_BY_SERVICE, INFLIGHT_GLOBAL,
                   INFLIGHT_REQUESTS, last, hist>>
    /\ UNCHANGED <<queryVars, tailVars, agentVars>>

\* lines 503-504: item = await q.get(); yield
StreamGet(s) ==
    /\ streamPc[s] = "get"
    /\ subq[s] # << >>
    /\ subq' = [subq EXCEPT ![s] = Tail(@)]
    /\ streamPc' = [streamPc EXCEPT ![s] = "check"]
    /\ UNCHANGED <<now, SAMPLE_RATE, EVENTS, SUBS, connected, TRACE_STORE,
                   REQ_WINDOW, ENDPOINT_WINDOWS, RECENT_REQS, ERROR_SIG_WINDOW,
                   ERROR_SIG_COUNT, INFLIGHT_BY_SERVICE, INFLIGHT_GLOBAL,
                   INFLIGHT_REQUESTS, last, hist>>
    /\ UNCHANGED <<queryVars, tailVars, agentVars>>

\* the client goes away
Disconnect(s) ==
    /\ streamPc[s] \in {"check", "get"}
    /\ connected[s]
    /\ connected' = [connected EXCEPT ![s] = FALSE]
    /\ UNCHANGED <<now, SAMPLE_RATE, EVENTS, SUBS, subq, streamPc, TRACE_STORE,
                   REQ_WINDOW, ENDPOINT_WINDOWS, RECENT_REQS, ERROR_SIG_WINDOW,
                   ERROR_SIG_COUNT, INFLIGHT_BY_SERVICE, INFLIGHT_GLOBAL,
                   INFLIGHT_REQUESTS, last, hist>>
    /\ UNCHANGED <<queryVars, tailVars, agentVars>>

\* lines 505-506: the server may end the response when it notices that the
\* client is gone, which cancels the generator wherever it waits; its
\* finally clause then runs.  Whether and when the server does so is not
\* decided by this handler.
StreamCancelled(s) ==
    /\ streamPc[s] \in {"check", "get"}
    /\ ~connected[s]
    /\ streamPc' = [streamPc EXCEPT ![s] = "done"]
    /\ SUBS' = SUBS \ {s}
    /\ UNCHANGED <<now, SAMPLE_RATE, EVENTS, subq, connected, TRACE_STORE,
                   REQ_WINDOW, ENDPOINT_WINDOWS, RECENT_REQS, ERROR_SIG_WINDOW,
                   ERROR_SIG_COUNT, INFLIGHT_BY_SERVICE, INFLIGHT_GLOBAL,
                   INFLIGHT_REQUESTS, last, hist>>
    /\ UNCHANGED <<queryVars, tailVars, agentVars>>

(***************************************************************************)
(* The query handlers (collector_app.py:409-437).  They are declared with  *)
(* def, not async def, so FastAPI runs each call on a thread of its        *)
(* threadpool, beside the event-loop thread that runs ingest: a thread     *)
(* switch can fall between two statements of a handler.  worker is one     *)
(* such thread; GET /metrics and GET /metrics/errorsigs are followed       *)
(* statement by statement, the other two handlers in one step.  A result   *)
(* is kept in last.data.                                                   *)
(***************************************************************************)
Answer(op, code, result) ==
    [op |-> op, code |-> code, data |-> result, auth |-> << >>, pub |-> FALSE]

\* GET /metrics, compute_global_metrics lines 287-289:
\* now = time.time(); _prune_req_deque(REQ_WINDOW, now); n = len(REQ_WINDOW);
\* line 295 makes the iterator of the pass
MetricsPrune ==
    /\ worker.pc = "idle"
    /\ REQ_WINDOW' = _prune_req_deque(REQ_WINDOW, now)
    /\ worker' = [pc |-> "pass", t |-> now, n |-> Len(REQ_WINDOW'),
                  seen |-> REQ_WINDOW']
    /\ UNCHANGED <<now, SAMPLE_RATE, EVENTS, SUBS, subq, streamPc, connected,
                   TRACE_STORE, ENDPOINT_WINDOWS, RECENT_REQS, ERROR_SIG_WINDOW,
                   ERROR_SIG_COUNT, inflightVars, last, hist>>
    /\ UNCHANGED <<tailVars, agentVars>>

\* lines 295-315: the pass over REQ_WINDOW and the answer.  The iterator of
\* a deque raises RuntimeError (deque mutated during iteration) when the
\* deque has changed since the iterator was made: the request is answered 500.
MetricsPass ==
    /\ worker.pc = "pass"
    /\ worker' = [pc |-> "idle"]
    /\ last' = IF REQ_WINDOW = worker.seen
               THEN Answer("metrics", 200,
                           [count |-> worker.n, rps |-> <<worker.n, WINDOW_S>>,
                            status |-> StatusHistogram(REQ_WINDOW),
                            error_rate_5xx |->
                                IF worker.n # 0
                                THEN <<StatusHistogram(REQ_WINDOW)["5xx"], worker.n>>
                                ELSE <<0, 1>>,
                            inflight |-> INFLIGHT_GLOBAL])
               ELSE Answer("metrics", 500, << >>)
    /\ UNCHANGED <<now, SAMPLE_RATE, collectorVars, streamPc, connected, hist>>
    /\ UNCHANGED <<tailVars, agentVars>>

\* GET /metrics/endpoints, compute_endpoint_metrics lines 317-365: every
\* endpoint window is pruned; a window left empty gives no row.  The answer
\* maps the endpoint of each row to its count.
metrics_endpoints ==
    /\ ENDPOINT_WINDOWS' = [k \in DOMAIN ENDPOINT_WINDOWS |->
                               _prune_req_deque(ENDPOINT_WINDOWS[k], now)]
    /\ last' = Answer("metrics_endpoints", 200,
                      [k \in {e \in DOMAIN ENDPOINT_WINDOWS :
                                 _prune_req_deque(ENDPOINT_WINDOWS[e], now) # << >>} |->
                          Len(_prune_req_deque(ENDPOINT_WINDOWS[k], now))])
    /\ UNCHANGED <<now, SAMPLE_RATE, EVENTS, SUBS, subq, streamPc, connected,
                   TRACE_STORE, REQ_WINDOW, RECENT_REQS, ERROR_SIG_WINDOW,
                   ERROR_SIG_COUNT, inflightVars, hist>>
    /\ UNCHANGED <<queryVars, tailVars, agentVars>>

\* GET /metrics/errorsigs, prune_error_sigs line 368: now = time.time()
metrics_errorsigs ==
    /\ worker.pc = "idle"
    /\ worker' = [pc |-> "sigs", t |-> now]
    /\ UNCHANGED <<now, SAMPLE_RATE, collectorVars, streamPc, connected, last, hist>>
    /\ UNCHANGED <<tailVars, agentVars>>

\* lines 369-370: the loop test and _, sig = ERROR_SIG_WINDOW.popleft()
SigsPop ==
    /\ worker.pc = "sigs"
    /\ ERROR_SIG_WINDOW # << >>
    /\ worker.t - ERROR_SIG_WINDOW[1][1] > WINDOW_S
    /\ ERROR_SIG_WINDOW' = Tail(ERROR_SIG_WINDOW)
    /\ worker' = [pc |-> "sigdec", t |-> worker.t, sig |-> ERROR_SIG_WINDOW[1][2]]
    /\ UNCHANGED <<now, SAMPLE_RATE, EVENTS, SUBS, subq, streamPc, connected,
                   TRACE_STORE, REQ_WINDOW, ENDPOINT_WINDOWS, RECENT_REQS,
                   ERROR_SIG_COUNT, inflightVars, last, hist>>
    /\ UNCHANGED <<tailVars, agentVars>>

\* lines 371-373: ERROR_SIG_COUNT[sig] -= 1, and del when it is <= 0
SigsDec ==
    /\ worker.pc = "sigdec"
    /\ LET c == Get(ERROR_SIG_COUNT, worker.sig, 0) - 1
       IN  ERROR_SIG_COUNT' = IF c <= 0 THEN Del(ERROR_SIG_COUNT, worker.sig)
                              ELSE Put(ERROR_SIG_COUNT, worker.sig, c)
    /\ worker' = [pc |-> "sigs", t |-> worker.t]
    /\ UNCHANGED <<now, SAMPLE_RATE, EVENTS, SUBS, subq, streamPc, connected,
                   TRACE_STORE, REQ_WINDOW, ENDPOINT_WINDOWS, RECENT_REQS,
                   ERROR_SIG_WINDOW, inflightVars, last, hist>>
    /\ UNCHANGED <<tailVars, agentVars>>

\* the loop ends; compute_top_error_signatures lines 377-378: the answer
SigsDone ==
    /\ worker.pc = "sigs"
    /\ ~(ERROR_SIG_WINDOW # << >> /\ worker.t - ERROR_SIG_WINDOW[1][1] > WINDOW_S)
    /\ worker' = [pc |-> "idle"]
    /\ last' = Answer("metrics_errorsigs", 200, ERROR_SIG_COUNT)
    /\ UNCHANGED <<now, SAMPLE_RATE, collectorVars, streamPc, connected, hist>>
    /\ UNCHANGED <<tailVars, agentVars>>

\* GET /metrics/traces, lines 428-437: _prune_recent(now) and the answer
metrics_traces ==
    /\ RECENT_REQS' = _prune_recent(RECENT_REQS, now)
    /\ last' = Answer("metrics_traces", 200, RECENT_REQS')
    /\ UNCHANGED <<now, SAMPLE_RATE, EVENTS, SUBS, subq, streamPc, connected,
                   TRACE_STORE, REQ_WINDOW, ENDPOINT_WINDOWS, ERROR_SIG_WINDOW,
                   ERROR_SIG_COUNT, inflightVars, hist>>
    /\ UNCHANGED <<queryVars, tailVars, agentVars>>

\* time passes
Tick ==
    /\ now < Epoch + MaxTicks
    /\ now' = now + 1
    /\ UNCHANGED <<SAMPLE_RATE, EVENTS, SUBS, subq, streamPc, connected,
                   TRACE_STORE, REQ_WINDOW, ENDPOINT_WINDOWS, RECENT_REQS,
                   ERROR_SIG_WINDOW, ERROR_SIG_COUNT, INFLIGHT_BY_SERVICE,
                   INFLIGHT_GLOBAL, INFLIGHT_REQUESTS, last, hist>>
    /\ UNCHANGED <<queryVars, tailVars, agentVars>>

InitState ==
    /\ now = Epoch
    /\ SAMPLE_RATE \in SampleRates
    /\ EVENTS = << >>
    /\ SUBS = {}
    /\ subq = [s \in Subscribers |-> << >>]
    /\ streamPc = [s \in Subscribers |-> "none"]
    /\ connected = [s \in Subscribers |-> FALSE]
    /\ TRACE_STORE = << >>
    /\ REQ_WINDOW = << >>
    /\ ENDPOINT_WINDOWS = << >>
    /\ RECENT_REQS = << >>
    /\ ERROR_SIG_WINDOW = << >>
    /\ ERROR_SIG_COUNT = << >>
    /\ INFLIGHT_BY_SERVICE = << >>
    /\ INFLIGHT_GLOBAL = 0
    /\ INFLIGHT_REQUESTS = << >>
    /\ last = [op |-> "init", code |-> 0, data |-> << >>, auth |-> << >>,
               pub |-> FALSE]
    /\ hist = [requests |-> 0, gaugeSeen |-> FALSE, started |-> {}, ended |-> {},
               anonStarts |-> 0, anonEnds |-> 0, touchOrder |-> << >>,
               lastIngest |-> Epoch, published |-> << >>,
               enrolledAt |-> [s \in Subscribers |-> 0],
               put |-> [s \in Subscribers |-> << >>]]
    /\ worker = [pc |-> "idle"]
    /\ fileLines = << >>
    /\ tailPos = 0
    /\ lineQ = << >>
    /\ tailHist = [failed |-> FALSE, opened |-> FALSE, openPos |-> 0, offered |-> {},
                   flips |-> 0, dropped |-> 0, line |-> << >>]
    /\ agentQ = << >>
    /\ agentHist = [emitted |-> 0, dropped |-> 0, logs |-> 0, calls |-> << >>,
                    queued |-> << >>, posted |-> << >>]
    /\ mw = [r \in AppRequests |-> [pc |-> "none", status |-> 500,
                                    raised |-> FALSE]]
    /\ logThread = [t \in LogThreads |-> [pc |-> "idle", request_id |-> None]]
    /\ _REQ_LOGS = << >>
    /\ _REQ_LOGS_LOCK = "free"

\* CollectorClient(url, token, service, max_q) and
\* RequestObservabilityMiddleware(app, client): emit_request_span = False
InitCollector == InitState /\ max_q = AgentMaxQ /\ emit_request_span = FALSE

\* OBS_LOG_FILES = "" (the default): _startup starts no tailer
NoTailer ==
    /\ TAIL_FROM_START = FALSE
    /\ fileOk = FALSE
    /\ tailPc = "none"
    /\ tailTask = "none"

\* OBS_LOG_FILES names one file: _startup starts tail_access_log, which
\* starts the tailer thread
OneTailer ==
    /\ TAIL_FROM_START \in BOOLEAN
    /\ fileOk \in BOOLEAN
    /\ tailPc = "open"
    /\ tailTask = "running"

Init == InitCollector /\ NoTailer

(***************************************************************************)
(* Bounded queues of the producers: queue.Queue.put_nowait raises Full on  *)
(* a full queue, and every producer catches it and goes on.                *)
(***************************************************************************)
\* a queue that makes room by dropping its oldest item
QueuePutNowaitDropOldest(q, x, maxsize) ==
    IF Len(q) >= maxsize THEN Append(Tail(q), x) ELSE Append(q, x)

\* try: q.put_nowait(x) / except queue.Full: pass
QueuePutNowait(q, x, maxsize) ==
    IF Len(q) >= maxsize THEN q ELSE Append(q, x)

(***************************************************************************)
(* The tailer thread (collector_app.py:708-748).  A line of the file is    *)
(* [fmt |-> "json", obj |-> the object], [fmt |-> "uvicorn", method, path, *)
(* status] or [fmt |-> "text"] for anything else.  Lines are appended      *)
(* whole.  The first attempt to open the file and every later one end in   *)
(* the read loop or, on any exception, in the retry loop, which sleeps     *)
(* 1.0 s before it opens the file again.                                   *)
(***************************************************************************)
\* a thread that gives up when the file cannot be opened
OpenOutcomeGivesUp(ok) == IF ok THEN "read" ELSE "dead"

\* where the thread goes after open(): the read loop, or except Exception
OpenOutcome(ok) == IF ok THEN "read" ELSE "backoff"

\* lines 714-715, 731-732: if not from_start: f.seek(0, os.SEEK_END)
OpenPos(from_start, lines) == IF from_start THEN 0 ELSE Len(lines)

TailOpened(ok) ==
    /\ tailPc' = OpenOutcome(ok)
    /\ tailPos' = IF ok THEN OpenPos(TAIL_FROM_START, fileLines) ELSE tailPos
    /\ tailHist' = IF ok
                   THEN [tailHist EXCEPT !.opened = TRUE,
                                         !.openPos = OpenPos(TAIL_FROM_START, fileLines)]
                   ELSE [tailHist EXCEPT !.failed = TRUE]
    /\ UNCHANGED <<now, SAMPLE_RATE, streamPc, connected, collectorVars, last, hist>>
    /\ UNCHANGED <<queryVars, agentVars, TAIL_FROM_START, fileOk, fileLines, lineQ,
                   tailTask>>

\* lines 712-715: the first open
TailOpen == tailPc = "open" /\ TailOpened(fileOk)

\* line 728: time.sleep(1.0)
TailSleep ==
    /\ tailPc = "backoff"
    /\ tailPc' = "retry"
    /\ UNCHANGED <<now, SAMPLE_RATE, streamPc, connected, collectorVars, last, hist>>
    /\ UNCHANGED <<queryVars, agentVars, TAIL_FROM_START, fileOk, fileLines, tailPos,
                   lineQ, tailTask, tailHist>>

\* lines 729-732: the open of the retry loop
TailRetry == tailPc = "retry" /\ TailOpened(fileOk)

\* lines 716-725, 733-741: readline() gave a line, which is offered to the
\* queue (at the end of the file the thread sleeps 0.2 s and reads again)
TailRead ==
    /\ tailPc = "read"
    /\ tailPos < Len(fileLines)
    /\ tailPos' = tailPos + 1
    /\ lineQ' = QueuePutNowait(lineQ, fileLines[tailPos + 1], LineQueueMaxsize)
    /\ tailHist' = [tailHist EXCEPT !.offered = @ \cup {tailPos + 1},
                                    !.dropped = IF Len(lineQ) >= LineQueueMaxsize
                                                THEN @ + 1 ELSE @]
    /\ UNCHANGED <<now, SAMPLE_RATE, streamPc, connected, collectorVars, last, hist>>
    /\ UNCHANGED <<queryVars, agentVars, TAIL_FROM_START, fileOk, fileLines, tailPc,
                   tailTask>>

\* lines 726, 742: readline() raised on a file that became unreadable
TailReadFails ==
    /\ tailPc = "read"
    /\ ~fileOk
    /\ tailPc' = "backoff"
    /\ tailHist' = [tailHist EXCEPT !.failed = TRUE]
    /\ UNCHANGED <<now, SAMPLE_RATE, streamPc, connected, collectorVars, last, hist>>
    /\ UNCHANGED <<queryVars, agentVars, TAIL_FROM_START, fileOk, fileLines, tailPos,
                   lineQ, tailTask>>

\* the environment: a writer appends a line to the file
FileAppend(line) ==
    /\ fileLines' = Append(fileLines, line)
    /\ UNCHANGED <<now, SAMPLE_RATE, streamPc, connected, collectorVars, last, hist>>
    /\ UNCHANGED <<queryVars, agentVars, TAIL_FROM_START, fileOk, tailPc, tailPos,
                   lineQ, tailTask, tailHist>>

\* the environment: the file becomes readable, or stops being so
FileFlip ==
    /\ tailHist.flips < MaxFileFlips
    /\ fileOk' = ~fileOk
    /\ tailHist' = [tailHist EXCEPT !.flips = @ + 1]
    /\ UNCHANGED <<now, SAMPLE_RATE, streamPc, connected, collectorVars, last, hist>>
    /\ UNCHANGED <<queryVars, agentVars, TAIL_FROM_START, fileLines, tailPc, tailPos,
                   lineQ, tailTask>>

(***************************************************************************)
(* parse_access_line (collector_app.py:654-701): no event (the empty       *)
(* tuple) or <<event>>.                                                    *)
(***************************************************************************)
parse_access_line(line, service, t) ==
    IF line.fmt = "json" /\ KindOf(line.obj) \in {"req", "req_end", "req_start"}
    THEN <<SetDefault(SetDefault(SetDefault(line.obj, "service", service),
                                 "ts", t), "route", None)>>
    ELSE IF line.fmt = "uvicorn"
    THEN <<[kind |-> "req", service |-> service, ts |-> t, method |-> line.method,
            path |-> line.path, route |-> None, status |-> line.status,
            duration_ms |-> NoneNum]>>
    ELSE << >>

\* the statement of _ingest_event_dict that raises TypeError for an event
\* the tailer hands over, or "none": int(None) for a null status (line 541);
\* for a null ts, now - None in the pruning of REQ_WINDOW (line 542) or of
\* the endpoint window (line 547) when the sample is their head, and else
\* float(None) in _record_recent_request (line 262)
IngestFailure(data, window, windows, t) ==
    IF KindOf(data) \notin {"req", "req_end"} THEN "none"
    ELSE IF "status" \in DOMAIN data /\ data.status = NoneNum THEN "status"
    ELSE IF "ts" \in DOMAIN data /\ data.ts = NoneNum
    THEN IF PruneRaises(Append(window, SampleOf(data, t)), t) THEN "global"
         ELSE IF PruneRaises(Append(Get(windows, _endpoint_key(data), << >>),
                                    SampleOf(data, t)), t) THEN "endpoint"
         ELSE "recent"
    ELSE "none"

IngestRaises(data) ==
    IngestFailure(data, REQ_WINDOW, ENDPOINT_WINDOWS, now) # "none"

(***************************************************************************)
(* tail_access_log (collector_app.py:750-756): the task takes a line from  *)
(* the queue, parses it and ingests the event as it is, with no schema in  *)
(* between.  An exception of the ingest ends the task.                     *)
(***************************************************************************)
TailConsume ==
    /\ tailTask = "running"
    /\ lineQ # << >>
    /\ lineQ' = Tail(lineQ)
    /\ LET parsed == parse_access_line(Head(lineQ), TailService, now)
       IN  IF parsed = << >>
           THEN /\ tailTask' = tailTask
                /\ last' = [op |-> "tail", code |-> 0, data |-> << >>,
                            auth |-> << >>, pub |-> FALSE]
                /\ UNCHANGED <<collectorVars, hist>>
           ELSE IF IngestRaises(parsed[1])
           THEN /\ tailTask' = "dead"
                /\ TRACE_STORE' =
                       _get_trace_bundle(TRACE_STORE,
                                         Get(parsed[1], "request_id", None), TRUE)
                /\ last' = [op |-> "tail", code |-> 500, data |-> parsed[1],
                            auth |-> << >>, pub |-> FALSE]
                /\ REQ_WINDOW' =
                       IF IngestFailure(parsed[1], REQ_WINDOW, ENDPOINT_WINDOWS, now)
                              = "status"
                       THEN REQ_WINDOW
                       ELSE ReqWindowAfter(REQ_WINDOW, parsed[1], now)
                /\ ENDPOINT_WINDOWS' =
                       IF IngestFailure(parsed[1], REQ_WINDOW, ENDPOINT_WINDOWS, now)
                              \in {"endpoint", "recent"}
                       THEN EndpointWindowsAfter(ENDPOINT_WINDOWS, parsed[1], now)
                       ELSE ENDPOINT_WINDOWS
                /\ UNCHANGED <<EVENTS, SUBS, subq, RECENT_REQS, ERROR_SIG_WINDOW,
                               ERROR_SIG_COUNT, INFLIGHT_BY_SERVICE, INFLIGHT_GLOBAL,
                               INFLIGHT_REQUESTS, hist>>
           ELSE /\ tailTask' = tailTask
                /\ \E draw \in RandomDraws :
                      /\ _ingest_event_dict(parsed[1], draw)
                      /\ last' = [op |-> "tail", code |-> 200,
                                  data |-> SetDefault(parsed[1], "request_id", None),
                                  auth |-> << >>,
                                  pub |-> ShouldPublish(parsed[1], SAMPLE_RATE, draw)]
    /\ tailHist' = [tailHist EXCEPT !.line = Head(lineQ)]
    /\ UNCHANGED <<now, SAMPLE_RATE, streamPc, connected>>
    /\ UNCHANGED <<queryVars, agentVars, TAIL_FROM_START, fileOk, fileLines, tailPc,
                   tailPos>>

(***************************************************************************)
(* The agent of an instrumented service (agent.py:54-86): emit fills in    *)
(* the fields the payload lacks and offers it to the queue; the worker     *)
(* thread posts every queued event to the collector and ignores failures.  *)
(***************************************************************************)
\* lines 64-75, called with the context ctx of the calling thread or task,
\* here its request_id
ClientEmit(payload, ctx) ==
    LET item == SetDefault(SetDefault(SetDefault(payload, "request_id", ctx),
                                      "ts", now), "service", AgentService)
    IN  /\ agentQ' = QueuePutNowait(agentQ, item, max_q)
        /\ agentHist' = [agentHist EXCEPT
               !.emitted = @ + 1,
               !.dropped = IF Len(agentQ) >= max_q THEN @ + 1 ELSE @,
               !.logs = IF item["kind"] = "log" THEN @ + 1 ELSE @,
               !.calls = Append(@, item),
               !.queued = IF Len(agentQ) >= max_q THEN @ ELSE Append(@, item)]

\* what a step of the instrumented service leaves alone
AgentFrame ==
    /\ UNCHANGED <<now, SAMPLE_RATE, streamPc, connected, collectorVars, last, hist>>
    /\ UNCHANGED <<queryVars, tailVars, max_q, emit_request_span>>

\* emit called outside a request: the context is empty
emit(payload) ==
    /\ ClientEmit(payload, None)
    /\ AgentFrame
    /\ UNCHANGED <<mw, logThread, _REQ_LOGS, _REQ_LOGS_LOCK>>

\* lines 77-86: item = self.q.get(); requests.post(...); the request either
\* reaches the collector or fails (timeout, connection error)
_worker ==
    /\ agentQ # << >>
    /\ agentQ' = Tail(agentQ)
    /\ \/ Post(Head(agentQ), Bearer(TOKEN))
       \/ UNCHANGED <<collectorVars, last, hist>>
    /\ agentHist' = [agentHist EXCEPT !.posted = Append(@, Head(agentQ))]
    /\ UNCHANGED <<now, SAMPLE_RATE, streamPc, connected>>
    /\ UNCHANGED <<queryVars, tailVars, max_q, emit_request_span, mw, logThread,
                   _REQ_LOGS, _REQ_LOGS_LOCK>>

(***************************************************************************)
(* RequestObservabilityMiddleware.dispatch (agent.py:95-179).  A request   *)
(* r is named by the request_id that uuid4 gives it.  The finally block    *)
(* runs on the event loop without an await, while the worker thread and    *)
(* the threads that log run beside it.                                     *)
(***************************************************************************)
\* status after the try block: 500 unless call_next returned a response
StatusAfterKeepsLast(outcome, last_status) ==
    IF outcome = << >> THEN last_status ELSE outcome[1]

\* lines 129-133
StatusAfter(outcome, last_status) == IF outcome = << >> THEN 500 ELSE outcome[1]

\* what call_next does: <<status_code>> of the response it returns, or << >>
\* when it raises
Outcomes == {<<200>>, << >>}

\* lines 95-128: the context is set and req_start is emitted
dispatch(r) ==
    /\ mw[r].pc = "none"
    /\ ClientEmit([kind |-> "req_start", request_id |-> r, method |-> "GET",
                   path |-> "/x"], r)
    /\ mw' = [mw EXCEPT ![r].pc = "call_next"]
    /\ AgentFrame
    /\ UNCHANGED <<logThread, _REQ_LOGS, _REQ_LOGS_LOCK>>

\* lines 129-137: resp = await call_next(request) returns or raises
call_next(r, outcome) ==
    /\ mw[r].pc = "call_next"
    /\ mw' = [mw EXCEPT ![r].pc = "finally",
                        ![r].status = StatusAfter(outcome, 200),
                        ![r].raised = (outcome = << >>)]
    /\ AgentFrame
    /\ UNCHANGED <<agentQ, agentHist, logThread, _REQ_LOGS, _REQ_LOGS_LOCK>>

\* line 40, called at lines 150-155: with _REQ_LOGS_LOCK
ConsumeAcquire(r) ==
    /\ mw[r].pc = "finally"
    /\ _REQ_LOGS_LOCK = "free"
    /\ _REQ_LOGS_LOCK' = r
    /\ mw' = [mw EXCEPT ![r].pc = "consume"]
    /\ AgentFrame
    /\ UNCHANGED <<agentQ, agentHist, logThread, _REQ_LOGS>>

\* lines 37-42: buf = _REQ_LOGS.pop(request_id, None), and the lock is
\* released
_consume_request_logs(r) ==
    /\ mw[r].pc = "consume"
    /\ _REQ_LOGS_LOCK = r
    /\ _REQ_LOGS' = IF r \in DOMAIN _REQ_LOGS THEN Del(_REQ_LOGS, r) ELSE _REQ_LOGS
    /\ _REQ_LOGS_LOCK' = "free"
    /\ mw' = [mw EXCEPT ![r].pc = "req_end"]
    /\ AgentFrame
    /\ UNCHANGED <<agentQ, agentHist, logThread>>

\* lines 157-166: req_end is emitted with int(status)
EmitReqEnd(r) ==
    /\ mw[r].pc = "req_end"
    /\ ClientEmit([kind |-> "req_end", request_id |-> r, method |-> "GET",
                   path |-> "/x", status |-> mw[r].status], r)
    /\ mw' = [mw EXCEPT ![r].pc = IF emit_request_span THEN "span" ELSE "done"]
    /\ AgentFrame
    /\ UNCHANGED <<logThread, _REQ_LOGS, _REQ_LOGS_LOCK>>

\* lines 167-179: the span of the request, then reset_context
EmitRequestSpan(r) ==
    /\ mw[r].pc = "span"
    /\ ClientEmit([kind |-> "span", name |-> "app.request"], r)
    /\ mw' = [mw EXCEPT ![r].pc = "done"]
    /\ AgentFrame
    /\ UNCHANGED <<logThread, _REQ_LOGS, _REQ_LOGS_LOCK>>

(***************************************************************************)
(* CollectorLogHandler.emit (agent.py:187-219) on a thread t that carries  *)
(* the context of request ctx (None outside a request): the log event is   *)
(* emitted, then the record is appended to the buffer of the request.      *)
(***************************************************************************)
\* lines 199-210
LogHandlerEmit(t, ctx) ==
    /\ logThread[t].pc = "idle"
    /\ ctx # None => mw[ctx].pc = "call_next"
    /\ ClientEmit([kind |-> "log", message |-> "m"], ctx)
    /\ logThread' = [logThread EXCEPT ![t] = [pc |-> "append", request_id |-> ctx]]
    /\ AgentFrame
    /\ UNCHANGED <<mw, _REQ_LOGS, _REQ_LOGS_LOCK>>

\* lines 27-28: if not request_id or REQ_LOG_LINES <= 0: return
AppendReturns(t) ==
    /\ logThread[t].pc = "append"
    /\ logThread[t].request_id = None \/ REQ_LOG_LINES <= 0
    /\ logThread' = [logThread EXCEPT ![t].pc = "idle"]
    /\ AgentFrame
    /\ UNCHANGED <<agentQ, agentHist, mw, _REQ_LOGS, _REQ_LOGS_LOCK>>

\* line 29: with _REQ_LOGS_LOCK
AppendAcquire(t) ==
    /\ logThread[t].pc = "append"
    /\ ~(logThread[t].request_id = None \/ REQ_LOG_LINES <= 0)
    /\ _REQ_LOGS_LOCK = "free"
    /\ _REQ_LOGS_LOCK' = t
    /\ logThread' = [logThread EXCEPT ![t].pc = "locked"]
    /\ AgentFrame
    /\ UNCHANGED <<agentQ, agentHist, mw, _REQ_LOGS>>

\* lines 30-34: the buffer is found or made, the record is appended, and
\* the lock is released.  A record is named by its number.
_append_request_log(t) ==
    /\ logThread[t].pc = "locked"
    /\ _REQ_LOGS_LOCK = t
    /\ _REQ_LOGS' = Put(_REQ_LOGS, logThread[t].request_id,
                        DequeAppend(Get(_REQ_LOGS, logThread[t].request_id, << >>),
                                    agentHist.logs, REQ_LOG_LINES))
    /\ _REQ_LOGS_LOCK' = "free"
    /\ logThread' = [logThread EXCEPT ![t].pc = "idle"]
    /\ AgentFrame
    /\ UNCHANGED <<agentQ, agentHist, mw>>

(***************************************************************************)
(* Request bodies.  A body is the JSON object as sent: a key that is not   *)
(* sent is not in its DOMAIN.  A request is <<body, Authorization>>.       *)
(***************************************************************************)
Good == Bearer(TOKEN)

WithRid(body, rid) == IF rid = None THEN body ELSE body @@ [request_id |-> rid]

ReqStartBody(svc, rid) ==
    WithRid([kind |-> "req_start", service |-> svc, method |-> "GET",
             path |-> "/x"], rid)

ReqBody(kind, svc, rid, path, status, dur) ==
    LET b == WithRid([kind |-> kind, service |-> svc, method |-> "GET",
                      path |-> path, status |-> status], rid)
    IN  IF dur = NoneNum THEN b ELSE b @@ [duration_ms |-> dur]

GaugeBody(svc, name, halves) ==
    [kind |-> "gauge", service |-> svc, name |-> name, value |-> halves]

LogBody(rid, trace) ==
    LET b == WithRid([kind |-> "log", service |-> "a", message |-> "m"], rid)
    IN  IF trace = None THEN b ELSE b @@ [trace |-> trace]

SpanBody(rid) == WithRid([kind |-> "span", service |-> "a", name |-> "db"], rid)

\* in-flight tracking: starts, ends and gauge deltas for two services
InflightBodies ==
    {ReqStartBody("a", "r1"), ReqStartBody("b", "r1"), ReqStartBody("b", "r2"),
     ReqStartBody("a", None)}
    \cup {ReqBody("req_end", "a", rid, "/x", 200, 10) : rid \in {None, "r1", "r2"}}
    \cup {ReqBody("req", "a", "r1", "/x", 200, 10)}
    \cup {GaugeBody("a", "inflight_delta", 0 - 3), GaugeBody("b", "inflight_delta", 0 - 2),
          GaugeBody("a", "inflight_delta", 2), GaugeBody("a", "cpu", 0 - 2)}

InflightRequests == {<<b, Good>> : b \in InflightBodies}

\* the rolling windows: samples for two endpoints, stamped by the collector
\* (no ts sent) or by the sender (ts = 0 is older than the window)
WindowBodies ==
    {ReqStartBody("a", "r1"),
     ReqBody("req_end", "a", "r1", "/x", 200, 10),
     ReqBody("req_end", "a", None, "/y", 500, 10),
     ReqBody("req_end", "a", "r2", "/x", 200, 10) @@ [ts |-> 0],
     ReqBody("req", "a", "r1", "/x", 200, NoneNum),
     ReqBody("req", "a", None, "/y", 200, 10) @@ [ts |-> 0]}

WindowRequests == {<<b, Good>> : b \in WindowBodies}

\* publishing: every kind, fast and slow, failed and not
PublishBodies ==
    {ReqBody("req_end", "a", None, "/x", 500, 10),
     ReqBody("req_end", "a", None, "/x", 200, 10),
     ReqBody("req", "a", None, "/x", 200, SLOW_MS),
     ReqStartBody("a", "r1"), LogBody(None, "t1"), SpanBody("r1"),
     GaugeBody("a", "inflight_delta", 2)}

PublishRequests == {<<b, Good>> : b \in PublishBodies}

\* the ingest boundary: good, bad and missing tokens; known and unknown kinds;
\* bodies that carry the fields of some event model and bodies that do not
HttpBodies ==
    {ReqBody("req_end", "a", "r1", "/x", 500, 10),
     ReqStartBody("a", "r1"),
     [kind |-> "bogus", service |-> "a", message |-> "m", request_id |-> "r1"],
     [kind |-> "bogus", service |-> "a"],
     [kind |-> "req", service |-> "a"]}

HttpRequests ==
    {<<b, a>> : b \in HttpBodies, a \in {Good, Bearer("wrong"), << >>}}

\* the trace store: events for three request ids, and some without
TraceBodies ==
    {LogBody(rid, None) : rid \in {None, "r1", "r2", "r3"}}
    \cup {SpanBody("r1"), ReqStartBody("a", "r2"),
          GaugeBody("a", "inflight_delta", 2) @@ [request_id |-> "r1"]}

TraceRequests == {<<b, Good>> : b \in TraceBodies}

Rids == {"r1", "r2", "r3"}

\* a ts that no clock of a run reaches
FutureTs == Epoch + MaxTicks + WINDOW_S + 1

\* the queries: samples and error signatures stamped by the collector, and a
\* sample stamped by a sender whose clock is ahead
QueryBodies ==
    {ReqBody("req_end", "a", None, "/x", 200, 10),
     ReqBody("req", "a", None, "/y", 200, 10) @@ [ts |-> FutureTs],
     LogBody(None, "t1")}

QueryRequests == {<<b, Good>> : b \in QueryBodies}

\* the queues: access-log lines of failed requests and spans, all of which
\* the collector publishes
QueueLines ==
    {[fmt |-> "uvicorn", method |-> "GET", path |-> route, status |-> 500] :
        route \in {"/x", "/y"}}

QueuePayloads == {[kind |-> "span", name |-> name] : name \in {"db", "io"}}

\* the tailed file: JSON lines with every field, without service, without
\* status and duration_ms, with kind alone, and a line that is no access-log
\* line
JsonLine(obj) == [fmt |-> "json", obj |-> obj]

TailLines ==
    {JsonLine(ReqBody("req_end", "a", None, "/x", 500, 10)),
     JsonLine([kind |-> "req_start", method |-> "GET", path |-> "/x",
               request_id |-> "r1"]),
     JsonLine([kind |-> "req", service |-> "a", method |-> "GET", path |-> "/x"]),
     JsonLine([kind |-> "req"]),
     [fmt |-> "text"]}

\* the live stream: two events that are published and one that is not
StreamBodies == {SpanBody("r1"), LogBody(None, None), ReqStartBody("a", "r1")}

StreamRequests == {<<b, Good>> : b \in StreamBodies}

\* the status classes: an informational status, one of each class, and a
\* req event without status
BucketBodies ==
    {ReqBody("req", "a", None, "/x", st, 10) : st \in {101, 200, 302, 404, 500}}
    \cup {[kind |-> "req", service |-> "a", method |-> "GET", path |-> "/x"]}

BucketRequests == {<<b, Good>> : b \in BucketBodies}

\* the lines the tailer task meets: a JSON line with every field, one that
\* lacks status, one with "status": null, one with "ts": null, and a line
\* that is no access-log line
TaskLines ==
    {JsonLine(ReqBody("req_end", "a", None, "/x", 500, 10)),
     JsonLine([kind |-> "req", service |-> "a", method |-> "GET", path |-> "/x"]),
     JsonLine(ReqBody("req", "a", None, "/x", NoneNum, 10)),
     JsonLine(ReqBody("req", "a", None, "/y", 200, 10) @@ [ts |-> NoneNum]),
     [fmt |-> "text"]}

(***************************************************************************)
(* Specifications: the same handlers, over different request bodies.       *)
(***************************************************************************)
InitNoSampling == Init /\ SAMPLE_RATE = 0

InflightIngest ==
    /\ hist.requests < MaxInflightRequests
    /\ \E r \in InflightRequests : ingest(r[1], r[2])

NextInflight == InflightIngest

SpecInflight == InitNoSampling /\ [][NextInflight]_vars

WindowIngest ==
    /\ hist.requests < MaxWindowRequests
    /\ \E r \in WindowRequests : ingest(r[1], r[2])

NextWindow == WindowIngest \/ Tick

SpecWindow == InitNoSampling /\ [][NextWindow]_vars

PublishIngest ==
    /\ hist.requests < MaxPublishRequests
    /\ \E r \in PublishRequests : ingest(r[1], r[2])

NextPublish ==
    \/ PublishIngest
    \/ \E s \in Subscribers : stream(s)

SpecPublish == Init /\ [][NextPublish]_vars

\* the producers and their queues: the tailer thread, the agent, the fan-out
InitQueues == InitCollector /\ OneTailer /\ SAMPLE_RATE = 0

QueuesFileAppend ==
    /\ Len(fileLines) < MaxFileLines
    /\ \E line \in QueueLines : FileAppend(line)

QueuesEmit ==
    /\ agentHist.emitted < MaxEmits
    /\ \E payload \in QueuePayloads : emit(payload)

NextQueues ==
    \/ QueuesFileAppend
    \/ TailOpen
    \/ TailSleep
    \/ TailRetry
    \/ TailRead
    \/ TailConsume
    \/ QueuesEmit
    \/ _worker
    \/ \E s \in Subscribers : stream(s)

SpecQueues == InitQueues /\ [][NextQueues]_vars

\* an instrumented service: the middleware, the threads that log and the
\* worker thread of its CollectorClient
InitAgent ==
    /\ InitState
    /\ NoTailer
    /\ SAMPLE_RATE = 0
    /\ max_q = AgentMaxQ + 1
    /\ emit_request_span \in BOOLEAN

\* the request the service is sent in this specification
AgentRequests == {"r1"}

AgentLog ==
    /\ agentHist.logs < MaxAgentLogs
    /\ \E t \in LogThreads, ctx \in AppRequests \cup {None} : LogHandlerEmit(t, ctx)

NextAgent ==
    \/ \E r \in AgentRequests : dispatch(r)
    \/ \E r \in AppRequests, outcome \in Outcomes : call_next(r, outcome)
    \/ \E r \in AppRequests : ConsumeAcquire(r)
    \/ \E r \in AppRequests : _consume_request_logs(r)
    \/ \E r \in AppRequests : EmitReqEnd(r)
    \/ \E r \in AppRequests : EmitRequestSpan(r)
    \/ AgentLog
    \/ \E t \in LogThreads : AppendReturns(t)
    \/ \E t \in LogThreads : AppendAcquire(t)
    \/ \E t \in LogThreads : _append_request_log(t)
    \/ _worker

SpecAgent == InitAgent /\ [][NextAgent]_vars

\* the request-log buffers: the middleware and the threads that log, for two
\* requests handled at the same time
ReqLogsLog ==
    /\ agentHist.logs < MaxLogRecords
    /\ \E t \in LogThreads, ctx \in AppRequests \cup {None} : LogHandlerEmit(t, ctx)

NextReqLogs ==
    \/ \E r \in AppRequests : dispatch(r)
    \/ \E r \in AppRequests, outcome \in Outcomes : call_next(r, outcome)
    \/ \E r \in AppRequests : ConsumeAcquire(r)
    \/ \E r \in AppRequests : _consume_request_logs(r)
    \/ \E r \in AppRequests : EmitReqEnd(r)
    \/ \E r \in AppRequests : EmitRequestSpan(r)
    \/ ReqLogsLog
    \/ \E t \in LogThreads : AppendReturns(t)
    \/ \E t \in LogThreads : AppendAcquire(t)
    \/ \E t \in LogThreads : _append_request_log(t)

SpecReqLogs == InitAgent /\ [][NextReqLogs]_vars

\* the tailer: its thread, its file and its task.  The thread is scheduled
\* whenever it can run: its sleeps return and its open and readline calls
\* return or raise.
TailFileAppend ==
    /\ Len(fileLines) < MaxFileLines
    /\ \E line \in TailLines : FileAppend(line)

NextTail ==
    \/ TailFileAppend
    \/ FileFlip
    \/ TailOpen
    \/ TailSleep
    \/ TailRetry
    \/ TailRead
    \/ TailReadFails
    \/ TailConsume

SpecTail ==
    /\ InitQueues
    /\ [][NextTail]_vars
    /\ WF_vars(TailOpen) /\ WF_vars(TailSleep) /\ WF_vars(TailRetry)
    /\ WF_vars(TailRead)

\* the live stream.  The event loop runs every generator that can go on: a
\* disconnection check returns, and q.get() returns once the queue has an
\* item.
StreamIngest ==
    /\ hist.requests < MaxStreamRequests
    /\ \E r \in StreamRequests : ingest(r[1], r[2])

NextStream ==
    \/ StreamIngest
    \/ \E s \in Subscribers : stream(s)
    \/ \E s \in Subscribers : StreamCheck(s)
    \/ \E s \in Subscribers : StreamGet(s)
    \/ \E s \in Subscribers : Disconnect(s)
    \/ \E s \in Subscribers : StreamCancelled(s)

SpecStream ==
    /\ InitNoSampling
    /\ [][NextStream]_vars
    /\ \A s \in Subscribers : WF_vars(StreamCheck(s)) /\ WF_vars(StreamGet(s))

\* the status histogram of GET /metrics
BucketIngest ==
    /\ hist.requests < MaxBucketRequests
    /\ \E r \in BucketRequests : ingest(r[1], r[2])

NextBucket == BucketIngest \/ MetricsPrune \/ MetricsPass

SpecBucket == InitNoSampling /\ [][NextBucket]_vars

\* the tailer task.  The event loop runs the task whenever a line waits in
\* the queue, and the thread is scheduled whenever it can run.
TaskFileAppend ==
    /\ Len(fileLines) < MaxFileLines
    /\ \E line \in TaskLines : FileAppend(line)

NextTailTask ==
    \/ TaskFileAppend
    \/ TailOpen
    \/ TailSleep
    \/ TailRetry
    \/ TailRead
    \/ TailConsume

SpecTailTask ==
    /\ InitQueues
    /\ [][NextTailTask]_vars
    /\ WF_vars(TailOpen) /\ WF_vars(TailSleep) /\ WF_vars(TailRetry)
    /\ WF_vars(TailRead) /\ WF_vars(TailConsume)

HttpIngest ==
    /\ hist.requests < MaxHttpRequests
    /\ \E r \in HttpRequests : ingest(r[1], r[2])

NextHttp ==
    \/ HttpIngest
    \/ \E s \in Subscribers : stream(s)

SpecHttp == InitNoSampling /\ [][NextHttp]_vars

TraceIngest ==
    /\ hist.requests < MaxTraceRequests
    /\ \E r \in TraceRequests : ingest(r[1], r[2])

TraceRead ==
    /\ hist.requests < MaxTraceRequests
    /\ \E rid \in Rids : trace_detail(rid)

NextTrace == TraceIngest \/ TraceRead

SpecTrace == InitNoSampling /\ [][NextTrace]_vars

QueryIngest ==
    /\ hist.requests < MaxQueryRequests
    /\ \E r \in QueryRequests : ingest(r[1], r[2])

NextQuery ==
    \/ QueryIngest
    \/ Tick
    \/ MetricsPrune
    \/ MetricsPass
    \/ metrics_endpoints
    \/ metrics_errorsigs
    \/ SigsPop
    \/ SigsDec
    \/ SigsDone
    \/ metrics_traces

SpecQuery == InitNoSampling /\ [][NextQuery]_vars

(***************************************************************************)
(* The claims.                                                             *)
(***************************************************************************)
\* a step of POST /ingest, whatever its answer
IngestStep == hist'.requests = hist.requests + 1 /\ last'.op = "ingest"

\* a step in which _ingest_event_dict ran
Ingested == IngestStep /\ last'.code = 200

ServiceCount(s) == Get(INFLIGHT_BY_SERVICE, s, 0)

\* C1: after each ingest step INFLIGHT_GLOBAL equals the sum of
\* INFLIGHT_BY_SERVICE[s] over all services s.
C1_GlobalIsSumOfServices ==
    INFLIGHT_GLOBAL = SumOver(INFLIGHT_BY_SERVICE, DOMAIN INFLIGHT_BY_SERVICE)

\* C2: in every reachable state INFLIGHT_GLOBAL >= 0 and
\* INFLIGHT_BY_SERVICE[s] >= 0 for every service s, also after negative
\* gauge deltas and after req_end events without a tracked req_start.
C2_CountersNonNegative ==
    /\ INFLIGHT_GLOBAL >= 0
    /\ \A s \in DOMAIN INFLIGHT_BY_SERVICE : INFLIGHT_BY_SERVICE[s] >= 0

\* C2 witness: a negative gauge delta was ingested as the first event, when
\* both counters were 0, and left them at the floor.
C2_Witness ==
    /\ hist.requests = 1
    /\ last.code = 200
    /\ KindOf(last.data) = "gauge"
    /\ last.data.name = "inflight_delta"
    /\ IntOfHalves(last.data.value) < 0
    /\ INFLIGHT_GLOBAL = 0
    /\ ServiceCount(last.data.service) = 0

\* C3: in a run without gauge events in which every req_start carries a
\* request_id, INFLIGHT_GLOBAL equals the number of entries of
\* INFLIGHT_REQUESTS and INFLIGHT_BY_SERVICE[s] the number of entries whose
\* service is s.
C3_CountersMatchEntries ==
    (~hist.gaugeSeen /\ hist.anonStarts = 0) =>
        /\ INFLIGHT_GLOBAL = Cardinality(DOMAIN INFLIGHT_REQUESTS)
        /\ \A s \in Services \cup DOMAIN INFLIGHT_BY_SERVICE :
             ServiceCount(s) =
                 Cardinality({r \in DOMAIN INFLIGHT_REQUESTS :
                                 INFLIGHT_REQUESTS[r][1] = s})

\* C4: in a run without gauge events, INFLIGHT_GLOBAL equals the number of
\* requests whose req_start has been ingested and whose req_end has not:
\* the request ids started and not ended, plus the requests without an id
\* started and not ended.
C4_InflightIsStartedNotEnded ==
    ~hist.gaugeSeen =>
        INFLIGHT_GLOBAL =
            Cardinality(hist.started \ hist.ended)
            + (IF hist.anonStarts > hist.anonEnds
               THEN hist.anonStarts - hist.anonEnds ELSE 0)

\* the cases C5 is about: a req event, or a req_end whose request_id is
\* missing or has no entry in INFLIGHT_REQUESTS
UntrackedEnd(data) ==
    \/ KindOf(data) = "req"
    \/ /\ KindOf(data) = "req_end"
       /\ \/ Get(data, "request_id", None) = None
          \/ Get(data, "request_id", None) \notin DOMAIN INFLIGHT_REQUESTS

EndsWith(w, x) == w # << >> /\ w[Len(w)] = x

\* C5 as stated: such an event leaves INFLIGHT_GLOBAL, INFLIGHT_BY_SERVICE
\* and INFLIGHT_REQUESTS unchanged, and after the step its sample is the
\* newest element of REQ_WINDOW and of its endpoint window.
C5_UntrackedEndOnlyAddsSample ==
    [][(Ingested /\ UntrackedEnd(last'.data)) =>
          LET data == last'.data
              epk == _endpoint_key(data)
          IN  /\ UNCHANGED inflightVars
              /\ EndsWith(REQ_WINDOW', SampleOf(data, now))
              /\ epk \in DOMAIN ENDPOINT_WINDOWS'
              /\ EndsWith(ENDPOINT_WINDOWS'[epk], SampleOf(data, now))]_vars

\* C5 amended: such an event leaves the in-flight state unchanged; its sample
\* is the newest element of REQ_WINDOW and of its endpoint window after the
\* step when now - ts <= WINDOW_S; an older sample is the newest element or
\* was pruned with the whole window in the same step.
C5_UntrackedEndAddsFreshSample ==
    [][(Ingested /\ UntrackedEnd(last'.data)) =>
          LET data == last'.data
              epk == _endpoint_key(data)
              sample == SampleOf(data, now)
              fresh == now - data.ts <= WINDOW_S
              Kept(w) == EndsWith(w, sample) \/ (~fresh /\ w = << >>)
          IN  /\ UNCHANGED inflightVars
              /\ Kept(REQ_WINDOW')
              /\ epk \in DOMAIN ENDPOINT_WINDOWS'
              /\ Kept(ENDPOINT_WINDOWS'[epk])
              /\ Len(REQ_WINDOW') <= Len(REQ_WINDOW) + 1]_vars

\* C5 witness: a req_end without a request_id was ingested while a request
\* was in flight, and its sample is the newest of both windows.
C5_Witness ==
    /\ last.op = "ingest" /\ last.code = 200
    /\ KindOf(last.data) = "req_end"
    /\ last.data.request_id = None
    /\ INFLIGHT_GLOBAL = 1
    /\ INFLIGHT_REQUESTS # << >>
    /\ EndsWith(REQ_WINDOW, SampleOf(last.data, now))
    /\ EndsWith(ENDPOINT_WINDOWS[_endpoint_key(last.data)], SampleOf(last.data, now))

\* the step published data: it is the newest element of the event ring, every
\* subscriber whose queue had room received it, and every subscriber whose
\* queue was full was dropped
Published(data) ==
    /\ EndsWith(EVENTS', data)
    /\ \A q \in SUBS :
          IF Len(subq[q]) < SubQueueMaxsize
          THEN q \in SUBS' /\ subq'[q] = Append(subq[q], data)
          ELSE q \notin SUBS' /\ subq'[q] = subq[q]

NotPublished == UNCHANGED <<EVENTS, subq, SUBS>>

FailedOrSlow(data) ==
    \/ data.status # NoneNum /\ data.status >= 500
    \/ data.duration_ms # NoneNum /\ data.duration_ms >= SLOW_MS

\* C6: every ingested req or req_end event with status >= 500 or with
\* duration_ms >= SLOW_MS is published; with SAMPLE_RATE = 0 no other req or
\* req_end event is published.
C6_SamplingGate ==
    [][(Ingested /\ KindOf(last'.data) \in {"req", "req_end"}) =>
          /\ FailedOrSlow(last'.data) => Published(last'.data)
          /\ (SAMPLE_RATE = 0 /\ ~FailedOrSlow(last'.data)) => NotPublished]_vars

\* C6 witness: with SAMPLE_RATE = 0 a slow req event with status 200 was
\* published to the event ring and to a subscriber.
C6_Witness ==
    /\ last.op = "ingest" /\ last.code = 200
    /\ SAMPLE_RATE = 0
    /\ KindOf(last.data) = "req"
    /\ last.data.status = 200
    /\ last.data.duration_ms >= SLOW_MS
    /\ EndsWith(EVENTS, last.data)
    /\ \E q \in SUBS : EndsWith(subq[q], last.data)

\* C7: no ingested req_start, log or gauge event is appended to EVENTS or put
\* on a subscriber queue; every ingested span event is published.
C7_OnlySpansPublishedByDefault ==
    [][Ingested =>
          /\ KindOf(last'.data) \in {"req_start", "log", "gauge"} => NotPublished
          /\ KindOf(last'.data) = "span" => Published(last'.data)]_vars

KnownKinds == {"req_start", "req_end", "req", "log", "span", "gauge"}

\* C8: a POST /ingest whose body has a kind outside KnownKinds is answered
\* with a 4xx status and leaves all collector state unchanged.
C8_UnknownKindRejected ==
    [][(IngestStep /\ KindOf(last'.data) \notin KnownKinds) =>
          (last'.code \in 400..499 /\ UNCHANGED collectorVars)]_vars

\* C9: a POST /ingest whose Authorization header is missing or differs from
\* "Bearer <TOKEN>" is answered 401 and leaves all collector state unchanged,
\* whatever the body.
C9_BadTokenIs401 ==
    [][(IngestStep /\ last'.auth # Good) =>
          (last'.code = 401 /\ UNCHANGED collectorVars)]_vars

\* C10: the trace store never holds more than TRACE_STORE_MAX bundles, and a
\* bundle that a step evicts is the one whose last touch (lookup by an ingest
\* or by GET /trace/{request_id}) was the oldest of all bundles in the store.
C10_EvictsLeastRecentlyTouched ==
    [][/\ Len(TRACE_STORE') <= TRACE_STORE_MAX
       /\ \A r \in SeqToSet(TRACE_STORE) \ SeqToSet(TRACE_STORE') :
             r = hist.touchOrder[1]]_vars

\* C11: a successful GET /trace/{request_id} promotes the bundle it reads:
\* after the read that bundle is the most recently touched entry of the
\* trace store (the last key of the OrderedDict), so the next eviction
\* spares it.
C11_ReadPromotesRecency ==
    [][(last'.op = "trace_detail" /\ last'.code = 200 /\ hist'.requests = hist.requests + 1) =>
          TRACE_STORE'[Len(TRACE_STORE')] = last'.data.request_id]_vars

\* the error-signature window and its count map agree
SigsAgree(window, count) ==
    /\ DOMAIN count = {window[i][2] : i \in 1..Len(window)}
    /\ \A sig \in DOMAIN count : count[sig] > 0
    /\ SumOver(count, DOMAIN count) = Len(window)

\* a GET /metrics/errorsigs query returns
SigsQueryDone == worker.pc = "sigs" /\ worker'.pc = "idle"

\* C12: after every ingest step and after every top-signatures query the key
\* set of ERROR_SIG_COUNT is the set of signatures in ERROR_SIG_WINDOW, every
\* count is positive and the counts sum to the length of the window.
C12_SigCountMatchesWindow ==
    [][(Ingested \/ SigsQueryDone) =>
          SigsAgree(ERROR_SIG_WINDOW', ERROR_SIG_COUNT')]_vars

\* the steps of the query handlers that are one step each
EndpointsQuery ==
    hist' = hist /\ now' = now /\ worker' = worker /\ last'.op = "metrics_endpoints"

TracesQuery ==
    hist' = hist /\ now' = now /\ worker' = worker /\ last'.op = "metrics_traces"

MetricsQueryPruned == worker.pc = "idle" /\ worker'.pc = "pass"

MetricsQueryDone == worker.pc = "pass" /\ worker'.pc = "idle"

\* a deque is empty or the ts of its head is in [t - WINDOW_S, t]
HeadInWindow(dq, ts_of(_), t) ==
    dq = << >> \/ (t - WINDOW_S <= ts_of(dq[1]) /\ ts_of(dq[1]) <= t)

SampleTs(sample) == sample[1]

SummaryTs(summary) == summary.ts

\* C13: after an append or a read that observes now, the head of every
\* rolling deque the step pruned (REQ_WINDOW, the touched endpoint window,
\* RECENT_REQS, ERROR_SIG_WINDOW) has a ts in [now - WINDOW_S, now], whatever
\* ts the ingested events carry.
C13_HeadWithinWindow ==
    [][/\ (Ingested /\ KindOf(last'.data) \in {"req", "req_end"}) =>
             /\ HeadInWindow(REQ_WINDOW', SampleTs, now)
             /\ HeadInWindow(ENDPOINT_WINDOWS'[_endpoint_key(last'.data)], SampleTs, now)
             /\ HeadInWindow(RECENT_REQS', SummaryTs, now)
       /\ (Ingested /\ KindOf(last'.data) = "log" /\ last'.data.trace # None) =>
             HeadInWindow(ERROR_SIG_WINDOW', SampleTs, now)
       /\ MetricsQueryPruned => HeadInWindow(REQ_WINDOW', SampleTs, now)
       /\ EndpointsQuery =>
             \A k \in DOMAIN ENDPOINT_WINDOWS' :
                 HeadInWindow(ENDPOINT_WINDOWS'[k], SampleTs, now)
       /\ TracesQuery => HeadInWindow(RECENT_REQS', SummaryTs, now)
       /\ SigsQueryDone => HeadInWindow(ERROR_SIG_WINDOW', SampleTs, worker.t)]_vars

\* C14: a metrics read that starts more than WINDOW_S after the last ingest
\* finds every window empty: GET /metrics reports count = 0 and rps = 0, the
\* endpoint table has no row, and the recent-requests and error-signature
\* windows are empty.
C14_IdleWindowsEmpty ==
    [][/\ (MetricsQueryDone /\ worker.t - hist.lastIngest > WINDOW_S) =>
             /\ last'.code = 200
             /\ last'.data.count = 0
             /\ last'.data.rps[1] = 0
       /\ (EndpointsQuery /\ now - hist.lastIngest > WINDOW_S) =>
             DOMAIN last'.data = {}
       /\ (TracesQuery /\ now - hist.lastIngest > WINDOW_S) => RECENT_REQS' = << >>
       /\ (SigsQueryDone /\ worker.t - hist.lastIngest > WINDOW_S) =>
             /\ ERROR_SIG_WINDOW' = << >>
             /\ DOMAIN last'.data = {}]_vars


\* the last n elements of a sequence
LastN(q, n) == IF Len(q) <= n THEN q ELSE SubSeq(q, Len(q) - n + 1, Len(q))

\* C15: EVENTS never holds more than MAX_EVENTS events and it is, in every
\* state, the sequence of the last MAX_EVENTS published events in publish
\* order: a publish into a full ring evicts the oldest event and stores the
\* new one.
C15_RingHoldsMostRecent ==
    /\ Len(EVENTS) <= MAX_EVENTS
    /\ EVENTS = LastN(hist.published, MAX_EVENTS)

\* C15 witness: more than MAX_EVENTS events were published, the ring is full,
\* and the last ingest published an event that is now its newest element
\* while the first published event is gone.
C15_Witness ==
    /\ last.op = "ingest" /\ last.pub
    /\ Len(hist.published) > MAX_EVENTS
    /\ Len(EVENTS) = MAX_EVENTS
    /\ EVENTS[MAX_EVENTS] = last.data
    /\ hist.published[1] \notin SeqToSet(EVENTS)


\* C16: on every publish each enrolled subscriber with room in its queue gets
\* the event appended and stays enrolled, each enrolled subscriber with a full
\* queue leaves SUBS with its queue as it was, nobody else is touched, and the
\* ingest is answered 200 with its event stored in the ring and in its trace
\* bundle and counted in the windows, whatever the subscribers' states.
C16_FanOutIsolatesSubscribers ==
    [][(Ingested /\ last'.pub) =>
          /\ \A q \in SUBS :
                /\ Len(subq[q]) < SubQueueMaxsize =>
                      q \in SUBS' /\ subq'[q] = Append(subq[q], last'.data)
                /\ Len(subq[q]) >= SubQueueMaxsize =>
                      q \notin SUBS' /\ subq'[q] = subq[q]
          /\ SUBS' \subseteq SUBS
          /\ \A q \in Subscribers \ SUBS : subq'[q] = subq[q]
          /\ last'.code = 200
          /\ hist'.published = Append(hist.published, last'.data)
          /\ EVENTS'[Len(EVENTS')] = last'.data
          /\ TRACE_STORE' =
                 _get_trace_bundle(TRACE_STORE, Get(last'.data, "request_id", None),
                                   KindOf(last'.data) \in BundleKinds)
          /\ REQ_WINDOW' = ReqWindowAfter(REQ_WINDOW, last'.data, now)
          /\ ERROR_SIG_WINDOW' =
                 ErrorSigsAfter(ERROR_SIG_WINDOW, ERROR_SIG_COUNT, last'.data, now)[1]
          /\ INFLIGHT_GLOBAL' =
                 InflightAfter([by |-> INFLIGHT_BY_SERVICE, global |-> INFLIGHT_GLOBAL,
                                requests |-> INFLIGHT_REQUESTS], last'.data, now).global
      ]_vars

\* C16 witness: the last publish met one subscriber with a full queue, which
\* left SUBS without getting the event, and another with room, which got the
\* event and is still enrolled.
C16_Witness ==
    /\ last.op = "ingest" /\ last.code = 200 /\ last.pub
    /\ \E dead \in Subscribers \ SUBS, live \in SUBS :
          /\ streamPc[dead] # "none"
          /\ Len(subq[dead]) = SubQueueMaxsize
          /\ last.data \notin SeqToSet(subq[dead])
          /\ subq[live] # << >>
          /\ subq[live][Len(subq[live])] = last.data


\* the steps that offer an item to a producer queue
LineOffered == tailPc = "read" /\ tailPc' = "read" /\ tailPos' = tailPos + 1

Emitted == agentHist'.emitted = agentHist.emitted + 1

PublishedToSubs == hist'.requests = hist.requests + 1 /\ last'.pub

\* C17: an offer to a full producer queue completes at once, drops the new
\* item and leaves the queue as it was, for the tailer's line queue, the
\* agent's emit queue and every subscriber queue; an offer to a queue with
\* room appends the item.
C17_FullQueueDropsNewest ==
    [][/\ LineOffered =>
             /\ Len(lineQ) >= LineQueueMaxsize => lineQ' = lineQ
             /\ Len(lineQ) < LineQueueMaxsize =>
                   lineQ' = Append(lineQ, fileLines[tailPos + 1])
             /\ tailPos + 1 \in tailHist'.offered
       /\ Emitted =>
             /\ Len(agentQ) >= max_q => agentQ' = agentQ
             /\ Len(agentQ) < max_q =>
                   Len(agentQ') = Len(agentQ) + 1
                   /\ SubSeq(agentQ', 1, Len(agentQ)) = agentQ
       /\ PublishedToSubs =>
             /\ last'.code = 200
             /\ \A q \in SUBS :
                   /\ Len(subq[q]) >= SubQueueMaxsize => subq'[q] = subq[q]
                   /\ Len(subq[q]) < SubQueueMaxsize =>
                         subq'[q] = Append(subq[q], last'.data)
      ]_vars

\* C17 witness: each of the three queues is full and has refused an item:
\* the tailer thread read on past a dropped line, emit returned after a
\* dropped event, and a publish left a full subscriber queue as it was.
C17_Witness ==
    /\ tailHist.dropped > 0 /\ tailPc = "read" /\ tailPos = Len(fileLines)
    /\ agentHist.dropped > 0 /\ agentHist.emitted > agentHist.dropped
    /\ \E q \in Subscribers \ SUBS :
          streamPc[q] # "none" /\ Len(subq[q]) = SubQueueMaxsize


\* a query handler has pruned and has not yet answered
QueryInProgress == worker.pc # "idle"

\* C18: no ingest step runs while a query handler is between its pruning and
\* its answer, the aggregates change during a query only by the steps of that
\* query, and the pass of GET /metrics iterates the REQ_WINDOW that its
\* pruning left and answers 200.
C18_QueriesNeverInterleave ==
    [][QueryInProgress =>
          /\ hist'.requests = hist.requests
          /\ worker' = worker =>
                UNCHANGED <<REQ_WINDOW, ENDPOINT_WINDOWS, RECENT_REQS,
                            ERROR_SIG_WINDOW, ERROR_SIG_COUNT>>
          /\ MetricsQueryDone => REQ_WINDOW = worker.seen /\ last'.code = 200
      ]_vars


\* the tailer task ingested the event of a JSON line it took from the queue
TailIngested ==
    /\ last'.op = "tail" /\ last'.code = 200
    /\ hist'.requests = hist.requests + 1
    /\ tailHist'.line.fmt = "json"

\* the collector state after a POST /ingest of body, with SAMPLE_RATE = 0
SameAsPost(body) ==
    LET data == ModelDump(body, now)
        inf == InflightAfter([by |-> INFLIGHT_BY_SERVICE, global |-> INFLIGHT_GLOBAL,
                              requests |-> INFLIGHT_REQUESTS], data, now)
    IN  /\ TRACE_STORE' = _get_trace_bundle(TRACE_STORE, data.request_id,
                                            KindOf(data) \in BundleKinds)
        /\ INFLIGHT_BY_SERVICE' = inf.by
        /\ INFLIGHT_GLOBAL' = inf.global
        /\ INFLIGHT_REQUESTS' = inf.requests
        /\ REQ_WINDOW' = ReqWindowAfter(REQ_WINDOW, data, now)
        /\ ENDPOINT_WINDOWS' = EndpointWindowsAfter(ENDPOINT_WINDOWS, data, now)
        /\ RECENT_REQS' = RecentAfter(RECENT_REQS, data, now)
        /\ EVENTS' = IF ShouldPublish(data, 0, 0)
                     THEN DequeAppend(EVENTS, data, MAX_EVENTS) ELSE EVENTS

\* C19: a JSON line with kind req, req_start or req_end that the tailer
\* ingests is a body that POST /ingest accepts, and the step leaves the
\* trace store, the in-flight counters, the windows and the event ring as
\* the POST of that body would, also when the line omits service, status or
\* duration_ms.
C19_TailerIngestsLikePost ==
    [][TailIngested =>
          /\ ValidModels(tailHist'.line.obj) # {}
          /\ SameAsPost(tailHist'.line.obj)]_vars


\* every line from the position of the last open on was offered to the queue
OfferedSinceOpen ==
    \A i \in (tailHist.openPos + 1)..Len(fileLines) : i \in tailHist.offered

\* C20: the tailer thread never ends; after a failed open or a failed read
\* it sleeps before it opens the file again; and if the file becomes
\* openable and stays so, the thread ends up in its read loop with every
\* line appended since it opened the file offered to the line queue.
C20_TailerRetriesForever ==
    /\ [](tailPc \in {"open", "backoff", "retry", "read"})
    /\ [][/\ (tailPc \in {"open", "retry"} /\ ~fileOk /\ tailPc' # tailPc) =>
                tailPc' = "backoff"
          /\ (tailPc = "backoff" /\ tailPc' # tailPc) => tailPc' = "retry"
          /\ tailPc' = "read" => (tailPc = "read" \/ fileOk)]_vars
    /\ (<>[]fileOk) => <>[](tailPc = "read" /\ OfferedSinceOpen)

\* C20 witness: after a failed open the thread has opened the file and has
\* offered a line that was appended after the open.
C20_Witness ==
    /\ tailHist.failed /\ tailHist.opened
    /\ fileOk /\ tailPc = "read"
    /\ Len(fileLines) > tailHist.openPos
    /\ ~TAIL_FROM_START
    /\ OfferedSinceOpen


PublishedSince(s) ==
    SubSeq(hist.published, hist.enrolledAt[s] + 1, Len(hist.published))

C29_RunningStreamIsEnrolled ==
    \A s \in Subscribers :
        (connected[s] /\ streamPc[s] \in {"check", "get"}) => s \in SUBS


\* the samples of a window with status >= 500
ServerErrors(window) == {i \in 1..Len(window) : window[i][3] >= 500}

\* C22: in every answer of GET /metrics the 5xx class and error_rate_5xx
\* count exactly the samples of the window with status >= 500, and every
\* sample of the window is in the 5xx class if and only if its status is
\* >= 500, also for a status below 200.
C22_ServerErrorClassIsStatusAtLeast500 ==
    [][(MetricsQueryDone /\ last'.code = 200) =>
          /\ last'.data.status["5xx"] = Cardinality(ServerErrors(REQ_WINDOW))
          /\ last'.data.error_rate_5xx[1] = Cardinality(ServerErrors(REQ_WINDOW))
          /\ \A i \in 1..Len(REQ_WINDOW) :
                _bucket_status(REQ_WINDOW[i][3]) = "5xx" <=> REQ_WINDOW[i][3] >= 500
      ]_vars


\* the ingested event carries a request_id
CarriesRequestId(data) ==
    Get(data, "request_id", None) # None /\ Get(data, "request_id", None) # ""

\* C23: an ingest looks up or creates a trace bundle if and only if the kind
\* of the event is req_start, req_end, req, log or span and the event
\* carries a request_id: then the bundle of that request_id is the most
\* recent entry of the store afterwards; a gauge event, or an event without
\* request_id, leaves the store as it was, bundles and order.
C23_BundleTouchedOnlyForTraceKinds ==
    [][Ingested =>
          IF KindOf(last'.data) \in BundleKinds /\ CarriesRequestId(last'.data)
          THEN TRACE_STORE' # << >>
               /\ TRACE_STORE'[Len(TRACE_STORE')] = last'.data.request_id
          ELSE TRACE_STORE' = TRACE_STORE]_vars


\* compute_global_metrics lines 287-289: count, computed at time t
GlobalCountAt(t) == Len(_prune_req_deque(REQ_WINDOW, t))

\* compute_endpoint_metrics lines 318-326: the count of every endpoint, at t
EndpointCountsAt(t) ==
    [k \in DOMAIN ENDPOINT_WINDOWS |-> Len(_prune_req_deque(ENDPOINT_WINDOWS[k], t))]

\* C26: in every state, the global window count computed now equals the sum
\* of the endpoint counts computed now, whatever ts the samples carry.
C26_GlobalCountIsSumOfEndpointCounts ==
    GlobalCountAt(now) = SumOver(EndpointCountsAt(now), DOMAIN ENDPOINT_WINDOWS)


\* C27: the tailer task never stops, and every line that waits in the line
\* queue is eventually taken from it, whatever lines came before.
C27_TailerTaskNeverStops ==
    /\ [](tailTask = "running")
    /\ \A n \in 1..LineQueueMaxsize : (Len(lineQ) = n) ~> (Len(lineQ) < n)


\* the calls of emit, in order, that carry request r and one of the kinds
RECURSIVE CallsOf(_, _, _)
CallsOf(calls, r, kinds) ==
    IF calls = << >> THEN << >>
    ELSE LET rest == CallsOf(Tail(calls), r, kinds)
         IN  IF Head(calls)["request_id"] = r /\ Head(calls)["kind"] \in kinds
             THEN <<Head(calls)>> \o rest ELSE rest

\* the kinds, in order, of the events of a sequence
KindsOf(events) == [i \in 1..Len(events) |-> events[i]["kind"]]

\* C24: for every request the middleware handles, emit is called with
\* exactly one req_start and then, once the finally block has run, exactly
\* one req_end of the same request_id, in that order; when call_next raised,
\* the req_end carries status 500; and the worker thread posts the queued
\* events in the order in which they were emitted.
C24_OneStartThenOneEndPostedInOrder ==
    /\ \A r \in AppRequests :
          LET mine == CallsOf(agentHist.calls, r, {"req_start", "req_end"})
          IN  /\ mw[r].pc = "none" => mine = << >>
              /\ mw[r].pc \in {"call_next", "finally", "consume", "req_end"}
                     => KindsOf(mine) = <<"req_start">>
              /\ mw[r].pc \in {"span", "done"}
                     => /\ KindsOf(mine) = <<"req_start", "req_end">>
                        /\ mw[r].raised => mine[2]["status"] = 500
    /\ agentHist.posted \o agentQ = agentHist.queued

\* C24: a request is finished after call_next raised, an event was dropped
\* at a full queue, and the worker has posted the req_start and later the
\* req_end of the request
C24_Witness ==
    /\ \E r \in AppRequests : mw[r].pc = "done" /\ mw[r].raised
    /\ agentHist.dropped > 0
    /\ \E r \in AppRequests :
          KindsOf(CallsOf(agentHist.posted, r, {"req_start", "req_end"}))
              = <<"req_start", "req_end">>


\* the thread or task that runs a step which changes _REQ_LOGS holds the lock
ReqLogsChangedUnderLock ==
    [][_REQ_LOGS' # _REQ_LOGS => _REQ_LOGS_LOCK \in AppRequests \cup LogThreads]_vars

\* each buffer holds at most REQ_LOG_LINES records
ReqLogsBuffersBounded ==
    \A r \in DOMAIN _REQ_LOGS : Len(_REQ_LOGS[r]) <= REQ_LOG_LINES

\* C25: _REQ_LOGS changes only in a step of the holder of _REQ_LOGS_LOCK,
\* each buffer holds at most REQ_LOG_LINES records, and once the middleware
\* has consumed the logs of a request in its finally block, _REQ_LOGS holds
\* no buffer for that request_id, in every interleaving of the threads that
\* log with the middleware.
C25_NoBufferAfterRequestFinished ==
    /\ ReqLogsBuffersBounded
    /\ \A r \in AppRequests :
          mw[r].pc \in {"req_end", "span", "done"} => r \notin DOMAIN _REQ_LOGS

====
